---- MODULE Spec2Model ----
(***************************************************************************)
(* A model of the SportRank ingestion backbone                            *)
(* (pipeline_orchestrator.py, admin_api.py, change_detector.py,           *)
(* pdf_downloader.py).                                                    *)
(*                                                                         *)
(* Spec     the store (tables orders and assignments), one orchestrator   *)
(*          call at a time (process_file, process_url, process_pending,   *)
(*          reprocess) advancing one awaited operation per step, the      *)
(*          admin actions on orders and the change detector's order       *)
(*          creation.                                                      *)
(* SpecBatch  process_pending over the orders the change detector found, *)
(*          with two order keys.                                          *)
(* SpecNet  the outbound requests of the downloader and of the change     *)
(*          detector against the egress allowlist.                        *)
(*                                                                         *)
(* Abstractions.  An order's key (source, order_number, order_date) is    *)
(* the pair (source_code, order_number): the date is folded into the      *)
(* number.  Order ids are positions in the orders table, which is kept in *)
(* created_at order; 0 is None.  Assignment rows are opaque tokens.       *)
(* log_processing never changes what the claims read and its failures are *)
(* swallowed by _log, so it is not a step of its own.                     *)
(***************************************************************************)
EXTENDS Integers, Sequences, FiniteSets, TLC

VARIABLES
    orders,           \* table orders (with each order's assignments), oldest first
    run,              \* the orchestrator calls: run[r] is call r's position and locals
    hist,             \* the previous process_file / process_url call, if it returned
    dynamic_domains,  \* pipeline_orchestrator._dynamic_domains
    net,              \* the fetch in progress in the downloader / change detector
    requests,         \* the outbound requests issued so far
    browser,          \* the browser fetches in progress and the semaphore's permits
    detector,         \* the change detector: its store and the check in progress
    extraction,       \* one extraction: the extractor's rows on their way to the store
    ranks,            \* the last calls of the two normalize_rank functions
    normalizer,       \* a SportNormalizer: its registry, indexes, aliases and cache
    ocr,              \* one OcrPipeline.process_bytes call and the work it has done
    racers            \* process_file / process_url calls running concurrently on one store

vars == <<orders, run, hist, dynamic_domains, net, requests, browser, detector, extraction,
          ranks, normalizer, ocr, racers>>

pipeVars == <<orders, run, hist>>
libVars == <<ranks, normalizer, ocr, racers>>
sysVars == <<pipeVars, dynamic_domains, net, requests, browser, detector, extraction>>
auxVars == <<browser, detector, extraction, libVars>>
netVars == <<dynamic_domains, net, requests, auxVars>>

----------------------------------------------------------------------------
(* Inputs                                                                  *)

\* registry_sources holds one source; "sx" is a source code it does not hold.
KnownSources == {"s1"}
SourceCodes == {"s1", "sx"}

\* order numbers (with their dates): the one the direct calls are given, and
\* the ones the change detector finds for the batch
Numbers == {"n1"}
BatchNumbers == {"n1", "n2"}

\* PDF byte strings; "big" is longer than MAX_PDF_SIZE
Bytes == {"b1", "b2", "big"}
NoBytes == "none"

\* the length of a byte string, in units of 25 MiB
Len25(b) == CASE b = "b1" -> 1 [] b = "b2" -> 2 [] b = "big" -> 3 [] OTHER -> 0

\* MAX_PDF_SIZE in the same unit (50 MiB)
MAX_PDF_SIZE == 2

\* hashlib.sha256(pdf_bytes).hexdigest(): distinct byte strings, distinct digests
NoHash == "null"
Sha256(b) == CASE b = "b1" -> "h1" [] b = "b2" -> "h2" [] b = "big" -> "h3" [] OTHER -> NoHash

\* URLs: one well-formed allowlisted URL and one of each rejected shape;
\* "good2" is a second allowlisted URL, "fresh" is on a host that only
\* register_domain can allow
NoUrl == "null"
Urls == {"good", "ftp", "userinfo", "evil"}
NetUrls == {"good", "evil", "fresh"}
UrlScheme(u) == IF u = "ftp" THEN "ftp" ELSE "https"
UrlNetloc(u) == CASE u = "userinfo" -> "admin:secret@www.mos.ru"
                  [] u = "evil" -> "evil.com"
                  [] u = "fresh" -> "new.example"
                  [] u = "good2" -> "mos.ru"
                  [] u = NoUrl -> ""
                  [] OTHER -> "www.mos.ru"
UrlHasUserinfo(u) == u = "userinfo"
UrlHostname(u) == CASE u = "evil" -> "evil.com"
                    [] u = "fresh" -> "new.example"
                    [] u = "good2" -> "mos.ru"
                    [] u = NoUrl -> ""
                    [] OTHER -> "www.mos.ru"

\* what socket.getaddrinfo answers for a host
DnsAnswers == {"public", "private", "mixed", "fail"}

\* assignment rows an extractor can return
Rows == {"a", "b"}
RowLists == {<<"a">>, <<"a", "b">>}

\* the largest limit given to process_pending
MaxLimit == 2

Range(s) == {s[i] : i \in 1..Len(s)}

----------------------------------------------------------------------------
(* Pure functions of pipeline_orchestrator.py                              *)

_ALLOWED_DOMAINS == {"www.mos.ru", "mos.ru", "mst.mosreg.ru", "kfis.gov.spb.ru",
                     "minsport.krasnodar.ru", "msrfinfo.ru"}

\* ALLOWED_DOMAINS = source_registry.get_all_domains(): the hosts of the
\* registry's base_url and list_urls
ALLOWED_DOMAINS == {"www.mos.ru", "mst.mosreg.ru", "kfis.gov.spb.ru",
                    "minsport.krasnodar.ru", "msrfinfo.ru"}

get_allowed_domains == (_ALLOWED_DOMAINS \cup dynamic_domains) \cup ALLOWED_DOMAINS

\* validate_url with the DNS lookup placed before the allowlist test
validate_url_dns_first(u, dns) ==
    IF UrlScheme(u) \notin {"http", "https"} THEN [ok |-> FALSE, dns |-> 0]
    ELSE IF UrlNetloc(u) = "" THEN [ok |-> FALSE, dns |-> 0]
    ELSE IF UrlHasUserinfo(u) THEN [ok |-> FALSE, dns |-> 0]
    ELSE IF UrlHostname(u) = "" THEN [ok |-> FALSE, dns |-> 0]
    ELSE [ok |-> (UrlHostname(u) \in get_allowed_domains /\ dns = "public"), dns |-> 1]

\* validate_url(url): ok is the result, dns the number of getaddrinfo calls made.
\* dns is the answer the resolver would give for the host.
validate_url(u, dns) ==
    IF UrlScheme(u) \notin {"http", "https"} THEN [ok |-> FALSE, dns |-> 0]
    ELSE IF UrlNetloc(u) = "" THEN [ok |-> FALSE, dns |-> 0]
    ELSE IF UrlHasUserinfo(u) THEN [ok |-> FALSE, dns |-> 0]
    ELSE IF UrlHostname(u) = "" THEN [ok |-> FALSE, dns |-> 0]
    ELSE IF UrlHostname(u) \notin get_allowed_domains THEN [ok |-> FALSE, dns |-> 0]
    ELSE [ok |-> (dns = "public"), dns |-> 1]

validate_pdf_size(b) == ~(Len25(b) > MAX_PDF_SIZE)

----------------------------------------------------------------------------
(* The store: DbAdapter                                                    *)

PendingStatuses == {"new", "downloaded"}

OrderIds == 1..Len(orders)

NewOrder(src, num, surl, furl) ==
    [src |-> src, num |-> num, status |-> "new", file_hash |-> NoHash,
     error_message |-> FALSE, source_url |-> surl, file_url |-> furl, asg |-> {}]

\* SELECT id FROM orders WHERE source_id = :sid AND order_number = :num AND order_date = :dt
FindOrder(src, num) ==
    LET hit == {i \in OrderIds : orders[i].src = src /\ orders[i].num = num}
    IN  IF hit = {} THEN 0 ELSE CHOOSE i \in hit : TRUE

\* check_file_exists that never finds the hash
check_file_exists_blind(h) == {0}

\* check_file_exists(file_hash): the ids the query may return (LIMIT 1 of the
\* holders), {0} for None
check_file_exists(h) ==
    LET holders == {i \in OrderIds : orders[i].file_hash = h}
    IN  IF holders = {} THEN {0} ELSE holders

\* the orders table after get_or_create_order, and the id it returns
get_or_create_order(src, num, surl, furl) ==
    IF src \notin KnownSources THEN [id |-> 0, table |-> orders, created |-> FALSE]
    ELSE IF FindOrder(src, num) # 0
         THEN [id |-> FindOrder(src, num), table |-> orders, created |-> FALSE]
         ELSE [id |-> Len(orders) + 1,
               table |-> Append(orders, NewOrder(src, num, surl, furl)),
               created |-> TRUE]

\* orders.file_hash is UNIQUE: writing h to order id fails when another holds it
UniqueViolation(id, h) ==
    id \in OrderIds /\ h # NoHash /\ \E j \in OrderIds : j # id /\ orders[j].file_hash = h

\* update_order_status(order_id, status, file_hash=h, error_message=err): a
\* partial update; h = NoHash and err = FALSE leave the column alone; an id
\* of no row updates nothing
update_order_status(id, status, h, err) ==
    IF id \notin OrderIds THEN orders
    ELSE [orders EXCEPT ![id] =
            [@ EXCEPT !.status = status,
                      !.file_hash = IF h # NoHash THEN h ELSE @,
                      !.error_message = IF err THEN TRUE ELSE @]]

RECURSIVE PendingFrom(_)
PendingFrom(i) ==
    IF i > Len(orders) THEN <<>>
    ELSE (IF orders[i].status \in PendingStatuses THEN <<i>> ELSE <<>>)
         \o PendingFrom(i + 1)

\* get_pending_orders(limit): WHERE status IN ('new','downloaded')
\* ORDER BY created_at ASC LIMIT :limit
get_pending_orders(limit) ==
    LET p == PendingFrom(1)
    IN  SubSeq(p, 1, IF limit < Len(p) THEN limit ELSE Len(p))

\* what one INSERT of save_assignments can do: succeed, fail before the
\* statement reaches the server (the row is skipped, the transaction goes on),
\* or fail in the server (the transaction is aborted: every later statement
\* fails and the final COMMIT rolls back)
InsertOutcomes == {"ok", "client_error", "server_error"}

RECURSIVE InsertLoop(_, _, _, _, _)
InsertLoop(rows, outs, i, working, aborted) ==
    IF i > Len(rows) THEN [working |-> working, aborted |-> aborted]
    ELSE IF aborted \/ outs[i] = "server_error"
         THEN InsertLoop(rows, outs, i + 1, working, TRUE)
         ELSE IF outs[i] = "client_error"
              THEN InsertLoop(rows, outs, i + 1, working, aborted)
              ELSE InsertLoop(rows, outs, i + 1, working \cup {rows[i]}, aborted)

\* save_assignments(order_id, rows): the order's committed assignment set
\* afterwards. The DELETE and the INSERTs run in one transaction.
save_assignments(prior, rows, outs) ==
    LET end == InsertLoop(rows, outs, 1, {}, FALSE)
    IN  IF end.aborted THEN prior ELSE end.working

----------------------------------------------------------------------------
(* The orchestrator's calls                                                *)

\* Spec runs one orchestrator call at a time
RunIds == {1}

NoDns == [dns |-> 0, http |-> 0]

IdleRun ==
    [pc |-> "idle", mode |-> "none", call |-> "none",
     url |-> NoUrl, src |-> "", num |-> "", bytes |-> NoBytes,
     \* PipelineResult
     order_id |-> 0, success |-> FALSE, status |-> "new", error |-> "", steps |-> <<>>,
     \* locals
     rows |-> <<>>, saved |-> FALSE, prior |-> {},
     \* what the call did: the statuses it stored (since the caller's entry
     \* point, or for the batch's current order), its DNS lookups and
     \* requests, the exception it raised to its caller
     writes |-> <<>>, net |-> NoDns, raised |-> "",
     \* reprocess and process_pending
     target |-> 0, fetched |-> <<>>, queue |-> <<>>, results |-> <<>>]

NoHist == [bytes |-> NoBytes, order_id |-> 0, holder |-> FALSE]

Step(name, status) == [step |-> name, status |-> status]

AllIdle == \A q \in RunIds : run[q].pc = "idle"

\* a fresh PipelineResult for one process_file / process_url call
FreshCall(rr, call, u, src, num) ==
    [rr EXCEPT !.call = call, !.url = u, !.src = src, !.num = num,
               !.bytes = NoBytes, !.order_id = 0, !.success = FALSE,
               !.status = "new", !.error = "", !.steps = <<>>, !.rows = <<>>,
               !.saved = FALSE, !.prior = {}, !.net = NoDns, !.raised = ""]

\* the result fields set when a step fails
Failed(rr, err) == [rr EXCEPT !.error = err, !.status = "failed"]

\* an exception leaves the call (process_pending catches it per order)
Raise(rr, exc) == [rr EXCEPT !.raised = exc, !.pc = "ret"]

\* process_url up to its first await: validate_url, then on to _step_download
EnterProcessUrl(rr, u, src, num, dns) ==
    LET c == FreshCall(rr, "url", u, src, num)
        v == validate_url(u, dns)
    IN  IF ~v.ok
        THEN [Failed(c, "ssrf") EXCEPT !.pc = "ret", !.net = [dns |-> v.dns, http |-> 0]]
        ELSE [c EXCEPT !.pc = "download", !.net = [dns |-> v.dns, http |-> 0]]

\* process_file(path, ...): the file is read, its size checked and hashed
StartProcessFile(r) ==
    /\ AllIdle
    /\ \E b \in Bytes \cup {NoBytes}, src \in SourceCodes, num \in Numbers :
         LET c == [FreshCall(run[r], "file", NoUrl, src, num) EXCEPT !.mode = "file"]
         IN  run' = [run EXCEPT ![r] =
                 IF b = NoBytes THEN [Failed(c, "nofile") EXCEPT !.pc = "ret"]
                 ELSE IF ~validate_pdf_size(b)
                      THEN [Failed(c, "size") EXCEPT !.pc = "ret", !.bytes = b]
                      ELSE [c EXCEPT !.pc = "dedup", !.bytes = b]]
    /\ UNCHANGED <<orders, hist, netVars>>

\* process_url(url, ...)
StartProcessUrl(r) ==
    /\ AllIdle
    /\ \E u \in Urls, src \in SourceCodes, num \in Numbers, dns \in DnsAnswers :
         run' = [run EXCEPT ![r] =
                    EnterProcessUrl([run[r] EXCEPT !.mode = "url"], u, src, num, dns)]
    /\ UNCHANGED <<orders, hist, netVars>>

DbOutcomes == {"ok", "error"}

\* what downloader.download gives: the bytes of a PDF, an anti-bot page
\* (AntibotDetected), or a failure (DownloadError, no downloader)
DownloadOutcomes == Bytes \cup {"antibot", "error"}

\* _step_download, then the size check and the hash of process_url
StepDownload(r) ==
    /\ run[r].pc = "download"
    /\ \E out \in DownloadOutcomes :
         LET c == [run[r] EXCEPT !.net.http = 1]
             ok == [c EXCEPT !.steps = Append(@, Step("download", "success"))]
             ko == [c EXCEPT !.steps = Append(@, Step("download", "failed"))]
         IN  run' = [run EXCEPT ![r] =
                 IF out = "antibot" THEN [Failed(ko, "antibot") EXCEPT !.pc = "ret"]
                 ELSE IF out = "error" THEN [Failed(ko, "download") EXCEPT !.pc = "ret"]
                 ELSE IF ~validate_pdf_size(out)
                      THEN [Failed(ok, "size") EXCEPT !.pc = "ret", !.bytes = out]
                      ELSE [ok EXCEPT !.pc = "dedup", !.bytes = out]]
    /\ UNCHANGED <<orders, hist, netVars>>

\* the result of the dedup short-circuit
DedupResult(rr, existing) ==
    [rr EXCEPT !.order_id = existing, !.status = "extracted", !.success = TRUE,
               !.steps = Append(@, Step("dedup", "skipped")), !.pc = "ret"]

\* the idempotency check: check_file_exists(result.file_hash)
CheckFileExists(r) ==
    /\ run[r].pc = "dedup"
    /\ \E db \in DbOutcomes :
         IF db = "error" THEN run' = [run EXCEPT ![r] = Raise(@, "db")]
         ELSE \E existing \in check_file_exists(Sha256(run[r].bytes)) :
                run' = [run EXCEPT ![r] =
                          IF existing # 0 THEN DedupResult(@, existing)
                          ELSE [@ EXCEPT !.pc = "create"]]
    /\ UNCHANGED <<orders, hist, netVars>>

\* result.order_id = get_or_create_order(...)
GetOrCreateOrder(r) ==
    /\ run[r].pc = "create"
    /\ \E db \in DbOutcomes :
         IF db = "error"
         THEN /\ run' = [run EXCEPT ![r] = Raise(@, "db")]
              /\ UNCHANGED orders
         ELSE LET g == get_or_create_order(run[r].src, run[r].num, run[r].url, run[r].url)
              IN  /\ orders' = g.table
                  /\ run' = [run EXCEPT ![r] =
                       [@ EXCEPT !.order_id = g.id,
                                 !.writes = IF g.created THEN Append(@, "new") ELSE @,
                                 !.pc = IF run[r].call = "url" THEN "mark" ELSE "ocr"]]
    /\ UNCHANGED <<hist, netVars>>

\* a store that runs every status UPDATE twice
Wrote_twice(rr, status) ==
    IF rr.order_id = 0 THEN rr ELSE [rr EXCEPT !.writes = @ \o <<status, status>>]

\* a status the call stored, when the UPDATE matched a row
Wrote(rr, status) ==
    IF rr.order_id = 0 THEN rr ELSE [rr EXCEPT !.writes = Append(@, status)]

\* process_url: update_order_status(order_id, "downloaded", file_hash=...)
MarkDownloaded(r) ==
    /\ run[r].pc = "mark"
    /\ \E db \in DbOutcomes :
         IF db = "error" \/ UniqueViolation(run[r].order_id, Sha256(run[r].bytes))
         THEN /\ run' = [run EXCEPT ![r] = Raise(@, "db")]
              /\ UNCHANGED orders
         ELSE /\ orders' = update_order_status(run[r].order_id, "downloaded",
                                               Sha256(run[r].bytes), FALSE)
              /\ run' = [run EXCEPT ![r] = [Wrote(@, "downloaded") EXCEPT !.pc = "ocr"]]
    /\ UNCHANGED <<hist, netVars>>

\* what ocr.process_bytes does: a text, an OcrError, another exception
OcrOutcomes == {"text", "ocr_error", "exception"}

\* _step_ocr up to its store update
OcrProcess(r) ==
    /\ run[r].pc = "ocr"
    /\ \E out \in OcrOutcomes :
         run' = [run EXCEPT ![r] =
            IF out = "text"
            THEN [@ EXCEPT !.steps = Append(@, Step("ocr", "success")),
                           !.pc = IF run[r].order_id # 0 THEN "ocr_update" ELSE "extract"]
            ELSE [Failed(@, "ocr") EXCEPT !.steps = Append(@, Step("ocr", "failed")),
                                         !.pc = "failed"]]
    /\ UNCHANGED <<orders, hist, netVars>>

\* the step list after _step_ocr's handler ran on a step already appended:
\* the one StepResult object, now failed, is in the list twice
ReappendFailed(steps) ==
    Append([steps EXCEPT ![Len(steps)] = Step(@.step, "failed")],
           Step(steps[Len(steps)].step, "failed"))

\* _step_ocr: update_order_status(order_id, "downloaded", file_hash, ocr_method, ...)
OcrUpdateStatus(r) ==
    /\ run[r].pc = "ocr_update"
    /\ \E db \in DbOutcomes :
         IF db = "error" \/ UniqueViolation(run[r].order_id, Sha256(run[r].bytes))
         THEN /\ run' = [run EXCEPT ![r] =
                    [Failed(@, "ocr") EXCEPT !.steps = ReappendFailed(@), !.pc = "failed"]]
              /\ UNCHANGED orders
         ELSE /\ orders' = update_order_status(run[r].order_id, "downloaded",
                                               Sha256(run[r].bytes), FALSE)
              /\ run' = [run EXCEPT ![r] = [Wrote(@, "downloaded") EXCEPT !.pc = "extract"]]
    /\ UNCHANGED <<hist, netVars>>

\* what one extractor does: it is absent (None), raises, or returns a list
ExtractorOutcomes ==
    {[kind |-> "absent", rows |-> <<>>], [kind |-> "raise", rows |-> <<>>],
     [kind |-> "rows", rows |-> <<>>]}
    \cup {[kind |-> "rows", rows |-> l] : l \in RowLists}

\* the rows of _step_extract: none is Python's None
step_extract_rows(llm, rule) ==
    LET first == IF llm.kind = "rows" THEN [none |-> FALSE, rows |-> llm.rows]
                 ELSE [none |-> TRUE, rows |-> <<>>]
    IN  IF first.none /\ rule.kind # "absent"
        THEN IF rule.kind = "rows" THEN [none |-> FALSE, rows |-> rule.rows]
             ELSE [none |-> TRUE, rows |-> <<>>]
        ELSE first

\* _step_extract, then _step_normalize (which keeps every row), when the LLM
\* extractor does llm and the rule-based extractor does (or would do) rule
StepExtractWith(r, llm, rule) ==
    /\ run[r].pc = "extract"
    /\ LET x == step_extract_rows(llm, rule)
       IN  run' = [run EXCEPT ![r] =
              IF x.none \/ Len(x.rows) = 0
              THEN [Failed(@, "extract") EXCEPT
                      !.steps = Append(@, Step("extract", "failed")), !.pc = "failed"]
              ELSE [@ EXCEPT
                      !.steps = @ \o <<Step("extract", "success"),
                                       Step("normalize", "success")>>,
                      !.rows = x.rows, !.pc = "save"]]
    /\ UNCHANGED <<orders, hist, netVars>>

StepExtract(r) ==
    \E llm \in ExtractorOutcomes, rule \in ExtractorOutcomes : StepExtractWith(r, llm, rule)

\* the result of a successful _step_save
SaveSuccess(rr) ==
    [rr EXCEPT !.success = TRUE, !.status = "extracted",
               !.steps = Append(@, Step("save", "success")), !.pc = "ret"]

SaveFailure(rr) ==
    [Failed(rr, "db") EXCEPT !.steps = Append(@, Step("save", "failed")), !.pc = "failed"]

\* _step_save: save_assignments(order_id, rows); with no order id, the dry run
SaveAssignments(r) ==
    /\ run[r].pc = "save"
    /\ IF run[r].order_id = 0
       THEN /\ run' = [run EXCEPT ![r] = SaveSuccess(@)]
            /\ UNCHANGED orders
       ELSE \E db \in DbOutcomes, outs \in [1..Len(run[r].rows) -> InsertOutcomes] :
              LET id == run[r].order_id
                  before == orders[id].asg
                  c == [run[r] EXCEPT !.saved = TRUE, !.prior = before]
              IN  IF db = "error"
                  THEN /\ run' = [run EXCEPT ![r] = SaveFailure(c)]
                       /\ UNCHANGED orders
                  ELSE /\ orders' = [orders EXCEPT ![id].asg =
                                        save_assignments(before, run[r].rows, outs)]
                       /\ run' = [run EXCEPT ![r] = [c EXCEPT !.pc = "save_status"]]
    /\ UNCHANGED <<hist, netVars>>

\* _step_save: update_order_status(order_id, "extracted", ...)
SaveUpdateStatus(r) ==
    /\ run[r].pc = "save_status"
    /\ \E db \in DbOutcomes :
         IF db = "error"
         THEN /\ run' = [run EXCEPT ![r] = SaveFailure(@)]
              /\ UNCHANGED orders
         ELSE /\ orders' = update_order_status(run[r].order_id, "extracted", NoHash, FALSE)
              /\ run' = [run EXCEPT ![r] = SaveSuccess(Wrote(@, "extracted"))]
    /\ UNCHANGED <<hist, netVars>>

\* _update_failed(result)
UpdateFailed(r) ==
    /\ run[r].pc = "failed"
    /\ IF run[r].order_id = 0
       THEN /\ run' = [run EXCEPT ![r].pc = "ret"]
            /\ UNCHANGED orders
       ELSE \E db \in DbOutcomes :
              IF db = "error"
              THEN /\ run' = [run EXCEPT ![r] = Raise(@, "db")]
                   /\ UNCHANGED orders
              ELSE /\ orders' = update_order_status(run[r].order_id, "failed", NoHash, TRUE)
                   /\ run' = [run EXCEPT ![r] = [Wrote(@, "failed") EXCEPT !.pc = "ret"]]
    /\ UNCHANGED <<hist, netVars>>

\* the positions at which a call waits on an awaited operation
AwaitPcs == {"download", "dedup", "create", "mark", "ocr", "ocr_update", "extract",
             "save", "save_status", "failed", "rp_reset"}

\* The task is cancelled (or the process dies) while the call waits:
\* CancelledError is no Exception, so no handler of the call catches it, and an
\* open transaction is rolled back.
Cancel(r) ==
    /\ run[r].pc \in AwaitPcs
    /\ run' = [run EXCEPT ![r] = Raise(@, "cancelled")]
    /\ UNCHANGED <<orders, hist, netVars>>

\* the PipelineResult a call returned, as process_pending keeps it
ResultOf(rr) ==
    [num |-> rr.num, order_id |-> rr.order_id, success |-> rr.success,
     status |-> rr.status, error |-> rr.error, caught |-> FALSE]

\* the PipelineResult process_pending builds itself: for an order with no URL
\* (error "nourl") or in its except clause (error "exception")
BuiltResult(num, err) ==
    [num |-> num, order_id |-> 0, success |-> FALSE, status |-> "failed",
     error |-> err, caught |-> (err = "exception")]

\* process_pending without its try / except: the exception ends the batch
AfterItem_no_catch(rr) ==
    IF rr.raised # "" THEN [rr EXCEPT !.pc = "batch_ret"]
    ELSE [rr EXCEPT !.results = Append(@, ResultOf(rr)), !.pc = "next_item"]

\* process_pending's loop body after process_url returned or raised:
\* except Exception does not catch CancelledError
AfterItem(rr) ==
    IF rr.raised = "cancelled" THEN [rr EXCEPT !.pc = "batch_ret"]
    ELSE IF rr.raised # ""
    THEN [rr EXCEPT !.results = Append(@, BuiltResult(rr.num, "exception")),
                    !.raised = "", !.pc = "next_item"]
    ELSE [rr EXCEPT !.results = Append(@, ResultOf(rr)), !.pc = "next_item"]

\* whether the call's order holds the hash of the call's bytes
HoldsHash(rr) ==
    /\ rr.bytes # NoBytes
    /\ rr.order_id \in OrderIds
    /\ orders[rr.order_id].file_hash = Sha256(rr.bytes)

\* process_file / process_url / reprocess returns or raises to its caller;
\* hist keeps the call when it returned a result
Return(r) ==
    /\ run[r].pc = "ret"
    /\ hist' = IF run[r].call \notin {"file", "url"} THEN hist
               ELSE IF run[r].raised # "" THEN NoHist
               ELSE [bytes |-> run[r].bytes, order_id |-> run[r].order_id,
                     holder |-> HoldsHash(run[r])]
    /\ run' = [run EXCEPT ![r] = IF run[r].mode = "pending" THEN AfterItem(@) ELSE IdleRun]
    /\ UNCHANGED <<orders, netVars>>

\* process_pending(limit): get_pending_orders
StartProcessPending(r) ==
    /\ AllIdle
    /\ \E limit \in 1..MaxLimit, db \in DbOutcomes :
         run' = [run EXCEPT ![r] =
            IF db = "error"
            THEN [@ EXCEPT !.mode = "pending", !.raised = "fetch", !.pc = "batch_ret"]
            ELSE [@ EXCEPT !.mode = "pending", !.pc = "next_item",
                           !.fetched = get_pending_orders(limit),
                           !.queue = get_pending_orders(limit)]]
    /\ UNCHANGED <<orders, hist, netVars>>

\* process_pending: the next fetched order. The fetched row's file_url,
\* source_url, source_code and order_number never change after the INSERT, so
\* they are read from the table.
NextItem(r) ==
    /\ run[r].pc = "next_item"
    /\ IF run[r].queue = <<>>
       THEN run' = [run EXCEPT ![r].pc = "batch_ret"]
       ELSE LET o == orders[Head(run[r].queue)]
                rest == [run[r] EXCEPT !.queue = Tail(@), !.writes = <<>>]
            IN  IF o.file_url # NoUrl
                THEN \E dns \in DnsAnswers :
                       run' = [run EXCEPT ![r] =
                                 EnterProcessUrl(rest, o.file_url, o.src, o.num, dns)]
                ELSE IF o.source_url # NoUrl
                THEN \E dns \in DnsAnswers :
                       run' = [run EXCEPT ![r] =
                                 EnterProcessUrl(rest, o.source_url, o.src, o.num, dns)]
                ELSE run' = [run EXCEPT ![r] =
                        [rest EXCEPT !.results = Append(@, BuiltResult(o.num, "nourl"))]]
    /\ UNCHANGED <<orders, hist, netVars>>

\* process_pending returns its results (or raises)
BatchReturn(r) ==
    /\ run[r].pc = "batch_ret"
    /\ run' = [run EXCEPT ![r] = IdleRun]
    /\ UNCHANGED <<orders, hist, netVars>>

\* reprocess(order_id): the order is looked up; an unknown id raises ValueError
StartReprocess(r) ==
    /\ AllIdle
    /\ \E id \in 1..(Len(orders) + 1), db \in DbOutcomes :
         run' = [run EXCEPT ![r] =
            IF db = "error" THEN [Raise(@, "db") EXCEPT !.mode = "reprocess"]
            ELSE IF id \notin OrderIds THEN [Raise(@, "value") EXCEPT !.mode = "reprocess"]
            ELSE [@ EXCEPT !.mode = "reprocess", !.target = id, !.pc = "rp_reset"]]
    /\ UNCHANGED <<orders, hist, netVars>>

\* reprocess: update_order_status(order_id, "downloaded"), then process_url on
\* the order's file_url; with no file_url, ValueError
ReprocessReset(r) ==
    /\ run[r].pc = "rp_reset"
    /\ \E db \in DbOutcomes, dns \in DnsAnswers :
         LET id == run[r].target
             o == orders[id]
         IN  IF db = "error"
             THEN /\ run' = [run EXCEPT ![r] = Raise(@, "db")]
                  /\ UNCHANGED orders
             ELSE /\ orders' = update_order_status(id, "downloaded", NoHash, FALSE)
                  /\ run' = [run EXCEPT ![r] =
                       IF o.file_url # NoUrl
                       THEN EnterProcessUrl([@ EXCEPT !.writes = <<"downloaded">>],
                                            o.file_url, o.src, o.num, dns)
                       ELSE Raise([@ EXCEPT !.writes = <<"downloaded">>], "value")]
    /\ UNCHANGED <<hist, netVars>>

----------------------------------------------------------------------------
(* admin_api.py: the operator's actions on an order                        *)

\* POST /api/orders/{id}/approve: 400 unless the order is extracted
approve_order(id) ==
    /\ id \in OrderIds
    /\ orders[id].status = "extracted"
    /\ orders' = [orders EXCEPT ![id].status = "approved"]
    /\ UNCHANGED <<run, hist, netVars>>

\* POST /api/orders/{id}/reject
reject_order(id) ==
    /\ id \in OrderIds
    /\ orders' = [orders EXCEPT ![id].status = "rejected", ![id].error_message = TRUE]
    /\ UNCHANGED <<run, hist, netVars>>

\* POST /api/orders/{id}/reprocess
reprocess_order(id) ==
    /\ id \in OrderIds
    /\ orders' = [orders EXCEPT ![id].status = "new", ![id].error_message = FALSE]
    /\ UNCHANGED <<run, hist, netVars>>

----------------------------------------------------------------------------
(* change_detector.py: a discovered document becomes an order              *)

\* the URLs a listing page can link to
ListedUrls == {"good", "good2", "evil"}

\* ChangeDetector._create_orders for one document: skipped when an order of
\* the source has the URL, or (the INSERT fails) the number
CreateOrder(src, num, url, furl) ==
    /\ src \in KnownSources
    /\ ~ \E i \in OrderIds : /\ orders[i].src = src
                             /\ \/ orders[i].source_url = url
                                \/ (furl # NoUrl /\ orders[i].file_url = furl)
    /\ FindOrder(src, num) = 0
    /\ orders' = Append(orders, NewOrder(src, num, url, furl))
    /\ UNCHANGED <<run, hist, netVars>>

----------------------------------------------------------------------------
(* The outbound requests: pdf_downloader.py and change_detector.py         *)

\* SOURCE_CONFIG[source]["method"] / SOURCE_PATTERNS[source]["method"]
Methods == {"httpx", "playwright"}

\* stop_after_attempt(3) on _download_httpx
MaxAttempts == 3

\* the in-page PDF retries followed in one download
MaxDepth == 2

\* the PDF links one discovered listing yields
MaxLinks == 1

NetIdle ==
    [pc |-> "idle", by |-> "", method |-> "", url |-> NoUrl,
     attempts |-> 0, depth |-> 0, links |-> 0]

\* what a host resolves to when the HTTP client or the browser connects:
\* evil.com points to a private address
Resolve(host) == IF host = "evil.com" THEN "private" ELSE "public"

\* one outbound request, with whether its host is in the allowlist as it is
\* made and the kind of address it connects to
Request(by, kind, u) ==
    [by |-> by, kind |-> kind, host |-> UrlHostname(u),
     allowed |-> UrlHostname(u) \in get_allowed_domains,
     addr |-> Resolve(UrlHostname(u))]

\* a client or browser that follows redirects requests the redirect's target
\* too; NoUrl is no redirect
Redirects == NetUrls \cup {NoUrl}
WithRedirect(by, kind, u, redir) ==
    {Request(by, kind, u)} \cup (IF redir = NoUrl THEN {} ELSE {Request(by, "redirect", redir)})

\* The domains given to register_domain, each a string as the sequence of its
\* pieces: a space, a dot, or a name (whose inner dots no strip reaches).
RawDomains ==
    {<<>>, <<" ">>, <<".">>, <<" ", ".", " ">>, <<".", " ", ".">>,
     <<"new.example">>, <<" ", "New.Example", ".", " ">>,
     <<"New.Example", " ", ".">>, <<".", " ", "New.Example">>,
     <<".", " ", "New.Example", " ", ".">>,
     <<"Sport.Test">>, <<"Sport.Test", " ", ".">>, <<".", " ", "Sport.Test">>,
     <<".", " ", "Sport.Test", " ", ".">>,
     <<"New.Example", ".", "Sport.Test">>, <<"Sport.Test", ".", "New.Example">>,
     <<"New.Example", " ", "Sport.Test">>, <<"Sport.Test", " ", "New.Example">>,
     <<"New.Example", ".", ".", "Sport.Test">>, <<"MOS.RU", ".">>}

\* str.strip(chars), on a string as the sequence of its pieces
RECURSIVE lstrip(_, _)
lstrip(s, chars) ==
    IF s # <<>> /\ Head(s) \in chars THEN lstrip(Tail(s), chars) ELSE s

RECURSIVE rstrip(_, _)
rstrip(s, chars) ==
    IF s # <<>> /\ s[Len(s)] \in chars THEN rstrip(SubSeq(s, 1, Len(s) - 1), chars) ELSE s

strip(s, chars) == rstrip(lstrip(s, chars), chars)

Whitespace == {" "}

\* str.lower()
lower(s) ==
    [i \in 1..Len(s) |-> CASE s[i] = "New.Example" -> "new.example"
                          [] s[i] = "Sport.Test" -> "sport.test"
                          [] s[i] = "MOS.RU" -> "mos.ru"
                          [] OTHER -> s[i]]

\* the string of a sequence of pieces
RECURSIVE Join(_)
Join(s) == IF s = <<>> THEN "" ELSE Head(s) \o Join(Tail(s))

\* register_domain that keeps the domain as it is given
normalize_domain_raw(domain) == Join(domain)

\* d = domain.strip().lower().strip(".")
normalize_domain(domain) == Join(strip(lower(strip(domain, Whitespace)), {"."}))

\* register_domain(domain)
register_domain(domain) ==
    /\ dynamic_domains' = IF normalize_domain(domain) # ""
                          THEN dynamic_domains \cup {normalize_domain(domain)}
                          ELSE dynamic_domains
    /\ UNCHANGED <<pipeVars, auxVars, net, requests>>

\* PdfDownloader.download(url, source_code): the strategy is chosen
BeginDownload(rec, u, method) ==
    [rec EXCEPT !.by = "downloader", !.method = method, !.url = u,
                !.attempts = 0, !.depth = 0,
                !.pc = IF method = "playwright" THEN "pw_home" ELSE "hx_get"]

\* download is over: back to discover_and_download's loop, or done
EndDownload(rec) ==
    IF rec.links > 0 THEN [rec EXCEPT !.pc = "links"] ELSE NetIdle

\* process_url: validate_url(url), then _step_download calls download(url)
ProcessUrlDownload(u, method, dns) ==
    /\ net.pc = "idle"
    /\ validate_url(u, dns).ok
    /\ net' = BeginDownload(NetIdle, u, method)
    /\ requests' = {}
    /\ UNCHANGED <<pipeVars, auxVars, dynamic_domains>>

\* discover_and_download(source_code, list_url): _discover_httpx /
\* _discover_playwright fetch the listing, whose links are then downloaded
DiscoverAndDownload(list_url, method, redir, n) ==
    /\ net.pc = "idle"
    /\ requests' = WithRedirect("downloader", "list", list_url, redir)
    /\ net' = IF n = 0 THEN NetIdle
              ELSE [NetIdle EXCEPT !.by = "downloader", !.method = method,
                                   !.links = n, !.pc = "links"]
    /\ UNCHANGED <<pipeVars, auxVars, dynamic_domains>>

\* discover_and_download: download(link, source_code) for the next link
DownloadLink(link) ==
    /\ net.pc = "links"
    /\ net' = BeginDownload([net EXCEPT !.links = @ - 1], link, net.method)
    /\ UNCHANGED <<pipeVars, auxVars, dynamic_domains, requests>>

\* _download_playwright, step 1: page.goto(scheme://netloc of url)
PwHome ==
    /\ net.pc = "pw_home"
    /\ requests' = requests \cup {Request("downloader", "home", net.url)}
    /\ net' = [net EXCEPT !.pc = "pw_target"]
    /\ UNCHANGED <<pipeVars, auxVars, dynamic_domains>>

\* what the target page turns out to be
PageOutcomes == {"none", "pdf", "html"}

\* _download_playwright, steps 2 to 4: page.goto(url); a PDF link found in an
\* HTML page is downloaded by a recursive call
PwTarget ==
    /\ net.pc = "pw_target"
    /\ \E redir \in Redirects, out \in PageOutcomes, link \in NetUrls \cup {NoUrl} :
         /\ requests' = requests \cup WithRedirect("downloader", "target", net.url, redir)
         /\ net' = IF out = "html" /\ link # NoUrl /\ net.depth < MaxDepth
                   THEN [net EXCEPT !.url = link, !.depth = @ + 1, !.pc = "pw_home"]
                   ELSE EndDownload(net)
    /\ UNCHANGED <<pipeVars, auxVars, dynamic_domains>>

\* _download_httpx: client.get(url) with follow_redirects; httpx.HTTPError is
\* retried by tenacity up to MaxAttempts attempts
HxGet ==
    /\ net.pc = "hx_get"
    /\ \E redir \in Redirects, ok \in BOOLEAN :
         /\ requests' = requests \cup WithRedirect("downloader", "get", net.url, redir)
         /\ net' = IF ok \/ net.attempts + 1 >= MaxAttempts THEN EndDownload(net)
                   ELSE [net EXCEPT !.attempts = @ + 1]
    /\ UNCHANGED <<pipeVars, auxVars, dynamic_domains>>

\* the list_urls of SOURCE_PATTERNS are on the sources' own hosts
ListUrls == {"good"}

\* ChangeDetector._fetch_page(url, method) for a listing page or a pagination
\* page (base_url + pagination: the same host)
FetchPage(u, method, redir) ==
    /\ net.pc = "idle"
    /\ requests' = WithRedirect("detector", IF method = "playwright" THEN "goto" ELSE "get",
                                u, redir)
    /\ UNCHANGED <<pipeVars, auxVars, dynamic_domains, net>>

NextNet ==
    \/ \E domain \in {<<"new.example">>, <<>>} : register_domain(domain)
    \/ \E u \in NetUrls, method \in Methods, dns \in DnsAnswers :
         ProcessUrlDownload(u, method, dns)
    \/ \E u \in NetUrls, method \in Methods, redir \in Redirects, n \in 0..MaxLinks :
         DiscoverAndDownload(u, method, redir, n)
    \/ \E link \in NetUrls : DownloadLink(link)
    \/ PwHome
    \/ PwTarget
    \/ HxGet
    \/ \E u \in ListUrls, method \in Methods, redir \in Redirects : FetchPage(u, method, redir)

\* the most domains registered in one run of the process
MaxDomains == 2

\* the admin API registers the domains of new sources
NextAllow ==
    \E domain \in RawDomains :
        Cardinality(dynamic_domains) < MaxDomains /\ register_domain(domain)

----------------------------------------------------------------------------
(* The browser sessions: ChangeDetector._fetch_playwright and              *)
(* PdfDownloader._download_playwright running as concurrent tasks          *)

\* the fetches that run concurrently in the process
MaxTasks == 3
Tasks == 1..MaxTasks

IdleTask == [by |-> "", pc |-> "idle", contexts |-> 0, depth |-> 0]

\* no browser fetch in progress, every permit of self._browser_sem free
NoBrowser == [sem |-> 2, tasks |-> [t \in Tasks |-> IdleTask]]

\* the browser contexts (sessions) open in the process
RECURSIVE ContextsUpTo(_)
ContextsUpTo(n) == IF n = 0 THEN 0 ELSE browser.tasks[n].contexts + ContextsUpTo(n - 1)
OpenSessions == ContextsUpTo(MaxTasks)

\* _fetch_playwright: async with self._browser_sem, entered when a permit is free
FetchPlaywrightEnter(t) ==
    /\ browser.tasks[t].pc = "idle"
    /\ browser.sem > 0
    /\ browser' = [browser EXCEPT !.sem = @ - 1,
                                  !.tasks[t] = [IdleTask EXCEPT !.by = "detector", !.pc = "entered"]]
    /\ UNCHANGED <<pipeVars, dynamic_domains, net, requests, detector, extraction, libVars>>

\* _fetch_playwright: _ensure_browser and browser.new_context; when they raise,
\* leaving the async with releases the permit
FetchPlaywrightContext(t, ok) ==
    /\ browser.tasks[t].by = "detector"
    /\ browser.tasks[t].pc = "entered"
    /\ browser' = IF ok
                  THEN [browser EXCEPT !.tasks[t].contexts = 1, !.tasks[t].pc = "page"]
                  ELSE [browser EXCEPT !.sem = @ + 1, !.tasks[t] = IdleTask]
    /\ UNCHANGED <<pipeVars, dynamic_domains, net, requests, detector, extraction, libVars>>

\* _fetch_playwright: page.goto and page.content return, raise or time out;
\* finally closes the page and the context, and the async with is left
FetchPlaywrightExit(t) ==
    /\ browser.tasks[t].by = "detector"
    /\ browser.tasks[t].pc = "page"
    /\ browser' = [browser EXCEPT !.sem = @ + 1, !.tasks[t] = IdleTask]
    /\ UNCHANGED <<pipeVars, dynamic_domains, net, requests, detector, extraction, libVars>>

\* _download_playwright / _discover_playwright: context = await self._new_context(config)
DownloadPlaywrightOpen(t) ==
    /\ browser.tasks[t].pc = "idle"
    /\ browser' = [browser EXCEPT !.tasks[t] =
                      [by |-> "downloader", pc |-> "page", contexts |-> 1, depth |-> 0]]
    /\ UNCHANGED <<pipeVars, dynamic_domains, net, requests, detector, extraction, libVars>>

\* _download_playwright: the page is HTML with a PDF link; the recursive call
\* opens its own context while the caller's stays open
DownloadPlaywrightRecurse(t) ==
    /\ browser.tasks[t].by = "downloader"
    /\ browser.tasks[t].pc = "page"
    /\ browser.tasks[t].depth < MaxDepth
    /\ browser' = [browser EXCEPT !.tasks[t].contexts = @ + 1, !.tasks[t].depth = @ + 1]
    /\ UNCHANGED <<pipeVars, dynamic_domains, net, requests, detector, extraction, libVars>>

\* _download_playwright returns or raises: finally closes the page and the
\* context of the innermost call still open
DownloadPlaywrightClose(t) ==
    /\ browser.tasks[t].by = "downloader"
    /\ browser.tasks[t].pc \in {"page", "unwind"}
    /\ browser' = IF browser.tasks[t].contexts = 1
                  THEN [browser EXCEPT !.tasks[t] = IdleTask]
                  ELSE [browser EXCEPT !.tasks[t].contexts = @ - 1, !.tasks[t].pc = "unwind"]
    /\ UNCHANGED <<pipeVars, dynamic_domains, net, requests, detector, extraction, libVars>>

\* browser fetches of the change detector and of the downloader, interleaved
NextBrowser ==
    \/ \E t \in Tasks : FetchPlaywrightEnter(t)
    \/ \E t \in Tasks, ok \in BOOLEAN : FetchPlaywrightContext(t, ok)
    \/ \E t \in Tasks : FetchPlaywrightExit(t)
    \/ \E t \in Tasks : DownloadPlaywrightOpen(t)
    \/ \E t \in Tasks : DownloadPlaywrightRecurse(t)
    \/ \E t \in Tasks : DownloadPlaywrightClose(t)

----------------------------------------------------------------------------
(* change_detector.py: check_source                                        *)

\* the source registry_sources marks red (mo_mособлспорт in source_registry.py);
\* the orchestrator's inputs above never name it
RedSources == {"s_red"}

\* the rows of registry_sources as the change detector's store holds them
RegistryRows == KnownSources \cup RedSources

\* the keys of SOURCE_PATTERNS; "s_norow" has a pattern and no row in the store
PatternCodes == RegistryRows \cup {"s_norow"}

\* registry_sources.risk_class
risk_class(code) == IF code \in RedSources THEN "red" ELSE "green"

\* the listing HTML a fetch can return: "h0" links nothing, "h1" links doc1,
\* "h2" links doc1 twice and doc2.pdf
Htmls == {"h0", "h1", "h2"}

\* _hash_content(html): distinct bodies, distinct hashes
hash_content(html) ==
    CASE html = "h0" -> "c0" [] html = "h1" -> "c1" [] OTHER -> "c2"

\* re.findall(link_regex, html), joined with the page URL
RawLinks(html) ==
    CASE html = "h0" -> <<>>
      [] html = "h1" -> <<"doc1">>
      [] OTHER -> <<"doc1", "doc1", "doc2.pdf">>

\* list(dict.fromkeys(links)): the first occurrence of each link, in order
RECURSIVE Dedup(_, _)
Dedup(links, seen) ==
    IF links = <<>> THEN <<>>
    ELSE IF Head(links) \in seen THEN Dedup(Tail(links), seen)
         ELSE <<Head(links)>> \o Dedup(Tail(links), seen \cup {Head(links)})

\* DiscoveredDocument(url=link), with file_url set when the link ends in .pdf
DiscoveredDocument(link) ==
    [url |-> link, file_url |-> IF link = "doc2.pdf" THEN link ELSE NoUrl]

\* _extract_pdf_links(html, page_url, pattern)
extract_pdf_links(html) ==
    LET links == Dedup(RawLinks(html), {})
    IN  [i \in 1..Len(links) |-> DiscoveredDocument(links[i])]

\* doc.file_url or doc.url
UrlKey(doc) == IF doc.file_url # NoUrl THEN doc.file_url ELSE doc.url

\* the change detector before initialize(): checks holds the results of the
\* last two check_source calls
NoDetector ==
    [initialized |-> FALSE, engine |-> FALSE,
     last_page_hash |-> [c \in RegistryRows |-> NoHash],
     checks |-> <<>>]

\* initialize(): the store is connected when db_url is given and answers
Initialize(db) ==
    /\ ~detector.initialized
    /\ detector' = [detector EXCEPT !.initialized = TRUE, !.engine = db]
    /\ UNCHANGED <<pipeVars, dynamic_domains, net, requests, browser, extraction, libVars>>

\* _get_source_info(source_code) found a row
HasSourceInfo(code) == detector.engine /\ code \in RegistryRows

\* _get_known_urls(source_code)
get_known_urls(code) ==
    IF ~HasSourceInfo(code) THEN {}
    ELSE LET mine == {i \in OrderIds : orders[i].src = code}
         IN  ({orders[i].source_url : i \in mine} \cup {orders[i].file_url : i \in mine})
                 \ {NoUrl}

\* the loop of _create_orders over docs, in one transaction: an order of the
\* source with the document's URL is a duplicate; a failed statement is logged
RECURSIVE CreateLoop(_, _, _, _, _, _, _)
CreateLoop(code, docs, outs, i, table, created, aborted) ==
    IF i > Len(docs) THEN [table |-> table, created |-> created, aborted |-> aborted]
    ELSE IF aborted THEN CreateLoop(code, docs, outs, i + 1, table, created, TRUE)
    ELSE IF \E j \in 1..Len(table) :
                /\ table[j].src = code
                /\ \/ table[j].source_url = docs[i].url
                   \/ (docs[i].file_url # NoUrl /\ table[j].file_url = docs[i].file_url)
         THEN CreateLoop(code, docs, outs, i + 1, table, created, FALSE)
    ELSE IF outs[i] = "server_error"
         THEN CreateLoop(code, docs, outs, i + 1, table, created, TRUE)
    ELSE IF outs[i] = "client_error"
         THEN CreateLoop(code, docs, outs, i + 1, table, created, FALSE)
    ELSE CreateLoop(code, docs, outs, i + 1,
                    Append(table, NewOrder(code, "", docs[i].url, docs[i].file_url)),
                    created + 1, FALSE)

\* _create_orders(source_code, docs): the orders table afterwards and the
\* count returned
create_orders(code, docs, outs) ==
    IF ~detector.engine THEN [table |-> orders, created |-> Len(docs)]
    ELSE IF code \notin RegistryRows THEN [table |-> orders, created |-> 0]
    ELSE LET end == CreateLoop(code, docs, outs, 1, orders, 0, FALSE)
         IN  [table |-> IF end.aborted THEN orders ELSE end.table, created |-> end.created]

CheckResult(code, html, status, fetched, links_new, orders_created) ==
    [source_code |-> code, html |-> html, status |-> status, fetched |-> fetched,
     links_new |-> links_new, orders_created |-> orders_created]

\* _check_source_impl(source_code, pattern, source_info) on the listing html:
\* the result, the orders table and the stored page hash afterwards
check_source_impl(code, html, outs) ==
    LET unique_docs == extract_pdf_links(html)
        known_urls == get_known_urls(code)
        new_docs == SelectSeq(unique_docs,
                        LAMBDA doc : UrlKey(doc) \notin known_urls /\ doc.url \notin known_urls)
        old_hash == IF HasSourceInfo(code) THEN detector.last_page_hash[code] ELSE NoHash
        page_hash_changed == old_hash # NoHash /\ old_hash # hash_content(html)
        made == create_orders(code, new_docs, outs)
    IN  [result |-> IF new_docs # <<>>
                    THEN CheckResult(code, html, "NEW_DOCS", TRUE, Len(new_docs), made.created)
                    ELSE IF page_hash_changed
                         THEN CheckResult(code, html, "CHANGED", TRUE, 0, 0)
                         ELSE CheckResult(code, html, "UNCHANGED", TRUE, 0, 0),
         table |-> IF new_docs # <<>> THEN made.table ELSE orders,
         hash |-> hash_content(html)]

\* the last result and the new one
Remember(checks, result) ==
    IF Len(checks) = 0 THEN <<result>> ELSE <<checks[Len(checks)], result>>

\* check_source(source_code): html is what the listing page returns, "error"
\* when the fetch raises; outs is what the INSERTs do
CheckSource(code, html, outs) ==
    /\ detector.initialized
    /\ IF code \notin PatternCodes
       THEN /\ detector' = [detector EXCEPT !.checks =
                               Remember(@, CheckResult(code, "", "SKIPPED", FALSE, 0, 0))]
            /\ UNCHANGED orders
       ELSE IF HasSourceInfo(code) /\ risk_class(code) = "red"
       THEN /\ detector' = [detector EXCEPT !.checks =
                               Remember(@, CheckResult(code, "", "SKIPPED", FALSE, 0, 0))]
            /\ UNCHANGED orders
       ELSE IF html = "error"
       THEN /\ detector' = [detector EXCEPT !.checks =
                               Remember(@, CheckResult(code, "error", "ERROR", TRUE, 0, 0))]
            /\ UNCHANGED orders
       ELSE LET x == check_source_impl(code, html, outs)
            IN  /\ detector' = [detector EXCEPT
                       !.checks = Remember(@, x.result),
                       !.last_page_hash = IF HasSourceInfo(code)
                                          THEN [@ EXCEPT ![code] = x.hash] ELSE @]
                /\ orders' = x.table
    /\ UNCHANGED <<run, hist, dynamic_domains, net, requests, browser, extraction, libVars>>

\* the links one listing yields at most
MaxDocs == 2

\* the change detector: initialize, then check_source over and over
NextDetect ==
    \/ \E db \in BOOLEAN : Initialize(db)
    \/ \E code \in PatternCodes \cup {"sx"}, html \in Htmls \cup {"error"},
          outs \in [1..MaxDocs -> InsertOutcomes] : CheckSource(code, html, outs)

----------------------------------------------------------------------------
(* The assignment records: llm_extractor.py, rule_extractor.py and the     *)
(* orchestrator's steps S3 and S4                                          *)

\* the items or data rows of one extraction
MaxItems == 2

\* the sequences over a set of at most MaxItems elements
SeqsUpTo(S) == UNION {[1..n -> S] : n \in 0..MaxItems}

\* leading and trailing punctuation of _clean_fio
Punct == {"-"}

\* the "fio" of an item of the model's JSON answer, as the sequence of its
\* pieces: absent or empty, blank, punctuation only, or a name
ItemFios ==
    {<<>>, <<" ">>, <<"-", " ">>, <<" ", "-", "Ivanov", " ", " ", "Ivan", " ">>,
     <<"Petrova", " ", "Anna">>}

\* the "rank_category" of an item
ItemRanks == {<<>>, <<" ">>, <<" ", "KMS">>, <<"judge 9">>}

\* re.sub(r"\s+", " ", s)
RECURSIVE collapse(_)
collapse(s) ==
    IF Len(s) < 2 THEN s
    ELSE IF s[1] \in Whitespace /\ s[2] \in Whitespace THEN collapse(Tail(s))
         ELSE <<Head(s)>> \o collapse(Tail(s))

\* LLMExtractor._clean_fio(fio)
clean_fio(fio) ==
    IF fio = <<>> THEN ""
    ELSE LET cleaned == strip(fio, Whitespace)
             led == lstrip(lstrip(cleaned, Punct), Whitespace)
             trailed == rstrip(rstrip(led, Punct), Whitespace)
         IN  Join(strip(collapse(trailed), Whitespace))

\* LLMExtractor._item_to_row(item); ok is FALSE when it raises ValueError
item_to_row(item) ==
    LET fio == clean_fio(item.fio)
        rank_category == Join(strip(item.rank_category, Whitespace))
    IN  [ok |-> fio # "" /\ rank_category # "",
         row |-> [fio |-> fio, rank_category |-> rank_category]]

\* LLMExtractor._parse_response: an item that raises is skipped
RECURSIVE parse_response(_)
parse_response(items) ==
    IF items = <<>> THEN <<>>
    ELSE (IF item_to_row(Head(items)).ok THEN <<item_to_row(Head(items)).row>> ELSE <<>>)
         \o parse_response(Tail(items))

\* the names RE_DATA_ROW / RE_FREE match: two to five capitalised words
RuleFios == {"Ivanov Ivan", "IvanovIvan", "Petrova Anna"}

\* the category lines of a page, and the free text after a name
CategoryTexts == {"KMS", "judge 9"}
ContextTexts == {"KMS boxing", "boxing"}

\* rank texts as the orders print them (transliterated)
RankTexts ==
    {"I razryad", "II razryad", "III razryad",
     "1 yunosheskiy razryad", "II yunosheskiy razryad", "III yunosh. razryad",
     "2 razryad (yunoshi)", "III razryad (yunoshi)",
     "master sporta", "master sporta Rossii mezhdunarodnogo klassa",
     "zasluzhennyy master sporta", "kandidat v mastera sporta",
     "pochetnyy master sporta Rossii", "pochetnyy trener Rossii",
     "zasluzhennyy trener Rossii", "KMS", "judge 9"}

\* RANK_PATTERNS in the dictionary's order: the canonical name of each pattern
\* (the last one, the specialists' categories, builds its name from the text)
RANK_PATTERNS ==
    << "zasluzhennyy master sporta rossii",
       "master sporta rossii mezhdunarodnogo klassa",
       "grossmeyster rossii",
       "kandidat v mastera sporta",
       "master sporta rossii",
       "zasluzhennyy trener rossii",
       "pochetnyy sportivnyy sudya rossii",
       "pochetnyy master sporta rossii",
       "pochetnyy trener rossii",
       "tretiy yunosheskiy sportivnyy razryad",
       "vtoroy yunosheskiy sportivnyy razryad",
       "pervyy yunosheskiy sportivnyy razryad",
       "tretiy yunosheskiy sportivnyy razryad",
       "vtoroy yunosheskiy sportivnyy razryad",
       "pervyy yunosheskiy sportivnyy razryad",
       "tretiy yunosheskiy sportivnyy razryad",
       "vtoroy yunosheskiy sportivnyy razryad",
       "pervyy yunosheskiy sportivnyy razryad",
       "tretiy sportivnyy razryad",
       "vtoroy sportivnyy razryad",
       "pervyy sportivnyy razryad",
       "tretiy sportivnyy razryad",
       "vtoroy sportivnyy razryad",
       "pervyy sportivnyy razryad",
       "sportivnyy sudya vserossiyskoy kategorii",
       "sportivnyy sudya pervoy kategorii",
       "sportivnyy sudya vtoroy kategorii",
       "sportivnyy sudya tretey kategorii",
       "yunyy sportivnyy sudya",
       "spetsialist kvalifikatsionnoy kategorii" >>

\* re.search(pattern, rank_text, re.IGNORECASE): the patterns found in a text
RankMatches(rank_text) ==
    CASE rank_text = "I razryad" -> {24}
      [] rank_text = "II razryad" -> {23}
      [] rank_text = "III razryad" -> {22}
      [] rank_text = "1 yunosheskiy razryad" -> {15}
      [] rank_text = "II yunosheskiy razryad" -> {17}
      [] rank_text = "III yunosh. razryad" -> {16}
      [] rank_text = "2 razryad (yunoshi)" -> {11, 20}
      [] rank_text = "III razryad (yunoshi)" -> {10, 11, 12, 22}
      [] rank_text = "master sporta" -> {5}
      [] rank_text = "master sporta Rossii mezhdunarodnogo klassa" -> {2, 5}
      [] rank_text = "zasluzhennyy master sporta" -> {1, 5}
      [] rank_text = "kandidat v mastera sporta" -> {4}
      [] rank_text = "pochetnyy master sporta Rossii" -> {5, 8}
      [] rank_text = "pochetnyy trener Rossii" -> {9}
      [] rank_text = "zasluzhennyy trener Rossii" -> {6}
      [] rank_text = "KMS" -> {4, 5}
      [] OTHER -> {}

\* rule_extractor.normalize_rank(rank_text): the canonical name of the first
\* matching RANK_PATTERNS entry, else the text itself
rule_normalize_rank(rank_text) ==
    LET hits == RankMatches(rank_text)
    IN  IF hits = {} THEN rank_text
        ELSE RANK_PATTERNS[CHOOSE i \in hits : \A j \in hits : i <= j]

\* TabularParser._parse_page: the i-th category goes to the i-th data row
tabular_parse_page(data_rows, categories) ==
    [i \in 1..Len(data_rows) |->
        LET rank == IF i <= Len(categories) THEN categories[i] ELSE ""
        IN  [fio |-> data_rows[i],
             rank_category |-> IF rank # "" THEN rule_normalize_rank(rank) ELSE ""]]

\* SectionParser.parse: the category is left to the section heading
section_parse(data_rows) ==
    [i \in 1..Len(data_rows) |-> [fio |-> data_rows[i], rank_category |-> ""]]

\* FreeTextParser.parse: the rank is the RANK_PATTERNS match in the context
freetext_parse(matches) ==
    [i \in 1..Len(matches) |->
        LET rank == IF matches[i].context = "KMS boxing" THEN "kandidat v mastera sporta" ELSE ""
        IN  [fio |-> matches[i].fio,
             rank_category |-> IF rank # "" THEN rule_normalize_rank(rank) ELSE ""]]

\* re.sub(r'([а-яё])([А-ЯЁ])', r'\1 \2', fio): a space goes between a lower-case
\* letter and the upper-case letter after it
unglue(fio) == IF fio = "IvanovIvan" THEN "Ivanov Ivan" ELSE fio

\* RuleExtractor._post_process: a row whose key (fio, birth_date) was seen is
\* dropped, an empty or short name is dropped, the glued words of the others
\* are split (the rows of one text share their birth date here)
RECURSIVE post_process(_, _)
post_process(rows, seen) ==
    IF rows = <<>> THEN <<>>
    ELSE IF Head(rows).fio \in seen \/ Head(rows).fio = ""
         THEN post_process(Tail(rows), seen \cup {Head(rows).fio})
         ELSE <<[Head(rows) EXCEPT !.fio = unglue(@)]>>
              \o post_process(Tail(rows), seen \cup {Head(rows).fio})

\* str(value).strip().lower()
RankLower(value) ==
    CASE value = "KMS" -> "kms"
      [] value = "I razryad" -> "i razryad"
      [] value = "II razryad" -> "ii razryad"
      [] value = "III razryad" -> "iii razryad"
      [] value = "II yunosheskiy razryad" -> "ii yunosheskiy razryad"
      [] value = "III yunosh. razryad" -> "iii yunosh. razryad"
      [] value = "III razryad (yunoshi)" -> "iii razryad (yunoshi)"
      [] value = "master sporta Rossii mezhdunarodnogo klassa"
            -> "master sporta rossii mezhdunarodnogo klassa"
      [] value = "pochetnyy master sporta Rossii" -> "pochetnyy master sporta rossii"
      [] value = "pochetnyy trener Rossii" -> "pochetnyy trener rossii"
      [] value = "zasluzhennyy trener Rossii" -> "zasluzhennyy trener rossii"
      [] OTHER -> value

\* the table aliases of normalize_rank: exact matches of the lowered text
RankAliases ==
    [s \in {"kms", "kandidat v mastera sporta", "ms", "master sporta",
            "master sporta rossii", "msmk", "master sporta mezhdunarodnogo klassa",
            "zms", "zasluzhennyy master sporta", "zasluzhennyy master sporta rossii",
            "grossmeyster rossii", "gm", "gmr", "ztr", "zasluzhennyy trener rossii"} |->
        CASE s \in {"kms", "kandidat v mastera sporta"} -> "kandidat v mastera sporta"
          [] s \in {"ms", "master sporta", "master sporta rossii"} -> "master sporta rossii"
          [] s \in {"msmk", "master sporta mezhdunarodnogo klassa"}
                -> "master sporta rossii mezhdunarodnogo klassa"
          [] s \in {"zms", "zasluzhennyy master sporta", "zasluzhennyy master sporta rossii"}
                -> "zasluzhennyy master sporta rossii"
          [] s \in {"grossmeyster rossii", "gm", "gmr"} -> "grossmeyster rossii"
          [] OTHER -> "zasluzhennyy trener rossii"]

\* what normalize_rank looks for in the lowered text: the substrings it holds,
\* and "3", "2", "1" for a match of \b(3|iii)\b, \b(2|ii)\b, \b(1|i)\b
RankFeatures(s) ==
    CASE s = "i razryad" -> {"razryad", "1"}
      [] s = "ii razryad" -> {"razryad", "2"}
      [] s = "iii razryad" -> {"razryad", "3"}
      [] s = "1 yunosheskiy razryad" -> {"yunosh", "razryad", "1"}
      [] s = "ii yunosheskiy razryad" -> {"yunosh", "razryad", "2"}
      [] s = "iii yunosh. razryad" -> {"yunosh", "razryad", "3"}
      [] s = "2 razryad (yunoshi)" -> {"yunosh", "razryad", "2"}
      [] s = "iii razryad (yunoshi)" -> {"yunosh", "razryad", "3"}
      [] s = "master sporta rossii mezhdunarodnogo klassa"
            -> {"master", "sporta", "mezhdunarod"}
      [] s = "pochetnyy master sporta rossii" -> {"pochetn", "master", "sporta"}
      [] s = "pochetnyy trener rossii" -> {"pochetn", "trener"}
      [] s = "judge 9" -> {"sud"}
      [] OTHER -> {}

\* the tests of normalize_rank after the aliases, in the order of the code:
\* each is the test's outcome on s and the name it returns
RankBranches(s) ==
    LET f == RankFeatures(s)
        has(w) == w \in f
    IN  << <<has("yunosh") /\ has("3"), "tretiy yunosheskiy sportivnyy razryad">>,
           <<has("yunosh") /\ has("2"), "vtoroy yunosheskiy sportivnyy razryad">>,
           <<has("yunosh") /\ has("1"), "pervyy yunosheskiy sportivnyy razryad">>,
           <<has("razryad") /\ has("3"), "tretiy sportivnyy razryad">>,
           <<has("razryad") /\ has("2"), "vtoroy sportivnyy razryad">>,
           <<has("razryad") /\ has("1"), "pervyy sportivnyy razryad">>,
           <<has("kandidat") /\ has("master"), "kandidat v mastera sporta">>,
           <<has("mezhdunarod") /\ has("master"),
             "master sporta rossii mezhdunarodnogo klassa">>,
           <<has("zasluzh") /\ has("master"), "zasluzhennyy master sporta rossii">>,
           <<has("master") /\ has("sporta"), "master sporta rossii">>,
           <<has("zasluzh") /\ has("trener"), "zasluzhennyy trener rossii">>,
           <<has("grossmeyster"), "grossmeyster rossii">>,
           <<has("pochetn") /\ has("sud"), "pochetnyy sportivnyy sudya rossii">>,
           <<has("pochetn") /\ has("master"), "pochetnyy master sporta rossii">>,
           <<has("pochetn") /\ has("trener"), "pochetnyy trener rossii">> >>

\* pipeline_orchestrator.normalize_rank(value): "" when the value is not recognised
normalize_rank(value) ==
    LET s == RankLower(value)
        branches == RankBranches(s)
        taken == {i \in DOMAIN branches : branches[i][1]}
    IN  IF value = "" THEN ""
        ELSE IF s \in DOMAIN RankAliases THEN RankAliases[s]
        ELSE IF taken = {} THEN ""
        ELSE branches[CHOOSE i \in taken : \A j \in taken : i <= j][2]

\* _step_normalize, 3a: a recognised rank is replaced by its canonical name
step_normalize(rows) ==
    [i \in 1..Len(rows) |->
        LET rank_raw == rows[i].rank_category
        IN  IF rank_raw # "" /\ normalize_rank(rank_raw) # ""
               /\ normalize_rank(rank_raw) # RankLower(rank_raw)
            THEN [rows[i] EXCEPT !.rank_category = normalize_rank(rank_raw)]
            ELSE rows[i]]

NoExtraction == [pc |-> "idle", method |-> "", rows |-> <<>>]

Extracted(method, rows) == [pc |-> "extracted", method |-> method, rows |-> rows]

\* _step_extract with the LLM extractor: LLMExtractor.extract on the items of
\* the model's answer
LlmExtract(items) ==
    /\ extraction.pc \in {"idle", "saved"}
    /\ extraction' = Extracted("llm", parse_response(items))
    /\ UNCHANGED <<pipeVars, dynamic_domains, net, requests, browser, detector, libVars>>

\* _step_extract with RuleExtractor.extract choosing the tabular parser
TabularExtract(data_rows, categories) ==
    /\ extraction.pc \in {"idle", "saved"}
    /\ extraction' = Extracted("tabular", post_process(tabular_parse_page(data_rows, categories), {}))
    /\ UNCHANGED <<pipeVars, dynamic_domains, net, requests, browser, detector, libVars>>

\* ... choosing the section parser
SectionExtract(data_rows) ==
    /\ extraction.pc \in {"idle", "saved"}
    /\ extraction' = Extracted("section", post_process(section_parse(data_rows), {}))
    /\ UNCHANGED <<pipeVars, dynamic_domains, net, requests, browser, detector, libVars>>

\* ... choosing the free-text parser
FreeTextExtract(matches) ==
    /\ extraction.pc \in {"idle", "saved"}
    /\ extraction' = Extracted("freetext", post_process(freetext_parse(matches), {}))
    /\ UNCHANGED <<pipeVars, dynamic_domains, net, requests, browser, detector, libVars>>

\* _step_extract ends: with no row the run fails; else _step_normalize
StepNormalize ==
    /\ extraction.pc = "extracted"
    /\ extraction' = IF extraction.rows = <<>> THEN NoExtraction
                     ELSE [extraction EXCEPT !.pc = "normalized", !.rows = step_normalize(@)]
    /\ UNCHANGED <<pipeVars, dynamic_domains, net, requests, browser, detector, libVars>>

\* _step_save: the rows are handed to save_assignments
StepSave ==
    /\ extraction.pc = "normalized"
    /\ extraction' = [extraction EXCEPT !.pc = "saved"]
    /\ UNCHANGED <<pipeVars, dynamic_domains, net, requests, browser, detector, libVars>>

\* one order's text through extraction, normalization and save
NextExtract ==
    \/ \E items \in SeqsUpTo([fio : ItemFios, rank_category : ItemRanks]) : LlmExtract(items)
    \/ \E data_rows \in SeqsUpTo(RuleFios), categories \in SeqsUpTo(CategoryTexts) :
         TabularExtract(data_rows, categories)
    \/ \E data_rows \in SeqsUpTo(RuleFios) : SectionExtract(data_rows)
    \/ \E matches \in SeqsUpTo([fio : RuleFios, context : ContextTexts]) : FreeTextExtract(matches)
    \/ StepNormalize
    \/ StepSave

----------------------------------------------------------------------------
(* The rank normalizers, called on their own                               *)

\* the two last calls, the older first
LastTwo(calls) == IF Len(calls) > 2 THEN Tail(calls) ELSE calls

\* rule_extractor.normalize_rank(rank_text)
RuleNormalizeRank(rank_text) ==
    /\ ranks' = LastTwo(Append(ranks, [fn |-> "rule_extractor", text |-> rank_text,
                                       result |-> rule_normalize_rank(rank_text)]))
    /\ UNCHANGED <<sysVars, normalizer, ocr, racers>>

\* pipeline_orchestrator.normalize_rank(value)
NormalizeRank(value) ==
    /\ ranks' = LastTwo(Append(ranks, [fn |-> "pipeline_orchestrator", text |-> value,
                                       result |-> normalize_rank(value)]))
    /\ UNCHANGED <<sysVars, normalizer, ocr, racers>>

----------------------------------------------------------------------------
(* sport_normalizer.py: SportNormalizer                                    *)

\* A name is a string as the sequence of its pieces: a space or a word.
\* The names given to the registry, and the names given to normalize.
SportNames == {<<"Boks">>, <<" ", "Boks">>, <<"Muaytay">>, <<>>}
QueryNames ==
    SportNames \cup {<<"BOKS">>, <<"Tay boks">>, <<"Bokss">>, <<" ">>}

\* the registries handed to load_entries, and the name cells of a spreadsheet
EntryLists ==
    {<<>>, << <<"Boks">> >>, << <<"Boks">>, <<"Muaytay">> >>,
     << <<" ", "Boks">> >>, << <<>>, <<"Muaytay">> >>}
XlsCells ==
    {<< <<"Boks">> >>, << <<" ", "Boks">>, <<"Muaytay">> >>, << <<" ">>, <<"Boks">> >>}

\* KNOWN_ALIASES, as the dictionary's items in order (one of its entries)
KNOWN_ALIASES == << << <<"Tay boks">>, <<"Muaytay">> >> >>

\* an Optional value: <<>> is None, <<v>> is the value v
None == <<>>
Some(v) == <<v>>

\* str.upper()
upper(s) ==
    [i \in 1..Len(s) |-> CASE s[i] = "Boks" -> "BOKS"
                          [] s[i] = "Bokss" -> "BOKSS"
                          [] s[i] = "Muaytay" -> "MUAYTAY"
                          [] s[i] = "Tay boks" -> "TAY BOKS"
                          [] OTHER -> s[i]]

\* SportNormalizer._normalize_text(text)
_normalize_text(text) == Join(upper(strip(text, Whitespace)))

\* a dictionary as the sequence of its items: d[key] = value
DictSet(d, key, value) ==
    IF \E i \in DOMAIN d : d[i][1] = key
    THEN [i \in DOMAIN d |-> IF d[i][1] = key THEN <<key, value>> ELSE d[i]]
    ELSE Append(d, <<key, value>>)

DictKeys(d) == {d[i][1] : i \in DOMAIN d}
DictGet(d, key) == d[CHOOSE i \in DOMAIN d : d[i][1] = key][2]

\* SportNormalizer(): nothing loaded, the known aliases, an empty cache
\* (_cache is a function of the names it holds)
NewNormalizer ==
    [ _sports |-> <<>>, _name_to_sport |-> {}, _norm_to_sport |-> <<>>,
      _alias_to_canon |-> KNOWN_ALIASES, _cache |-> <<>>,
      last |-> [input |-> None, hit |-> FALSE, result |-> None] ]

\* _rebuild_indexes: the exact names, and the folded names with their sport
\* (the last sport of a folded name wins)
RECURSIVE NormIndex(_, _)
NormIndex(sports, index) ==
    IF sports = <<>> THEN index
    ELSE NormIndex(Tail(sports), DictSet(index, _normalize_text(Head(sports)), Head(sports)))

_rebuild_indexes(n, sports) ==
    [n EXCEPT !._sports = sports,
              !._name_to_sport = Range(sports),
              !._norm_to_sport = NormIndex(sports, <<>>)]

\* NormalizationResult; confidence in thousandths
NormalizationResult(input_name, canonical_name, confidence, method) ==
    [ input_name |-> input_name, canonical_name |-> canonical_name,
      confidence |-> confidence, method |-> method ]

\* _builtin_fuzzy.combined_score(query, candidate), in thousandths
combined_score(query, candidate) ==
    LET q == Join(upper(query))
        c == Join(candidate)
    IN  CASE c = "" -> 150
          [] q = "BOKS" /\ c \in {"Boks", " Boks"} -> 1000
          [] q = "BOKS" /\ c = "Muaytay" -> 57
          [] q = "BOKS" /\ c = "Tay boks" -> 600
          [] q = "BOKS" /\ c = "Bokss" -> 801
          [] q = "MUAYTAY" /\ c = "Boks" -> 57
          [] q = "MUAYTAY" /\ c = " Boks" -> 71
          [] q = "MUAYTAY" /\ c = "Muaytay" -> 1000
          [] q = "MUAYTAY" /\ c = "Tay boks" -> 221
          [] q = "MUAYTAY" /\ c = "Bokss" -> 71
          [] q = "TAY BOKS" /\ c = "Boks" -> 600
          [] q = "TAY BOKS" /\ c = " Boks" -> 613
          [] q = "TAY BOKS" /\ c = "Muaytay" -> 221
          [] q = "TAY BOKS" /\ c = "Tay boks" -> 1000
          [] q = "TAY BOKS" /\ c = "Bokss" -> 312
          [] q = "BOKSS" /\ c = "Boks" -> 801
          [] q = "BOKSS" /\ c = " Boks" -> 671
          [] q = "BOKSS" /\ c = "Muaytay" -> 71
          [] q = "BOKSS" /\ c = "Tay boks" -> 312
          [] q = "BOKSS" /\ c = "Bokss" -> 1000
          [] OTHER -> 0

\* REVIEW_THRESHOLD / 100, in thousandths
REVIEW_THRESHOLD == 700

\* _fuzzy_match(name): the best of the sports and of the aliases of a loaded
\* sport, the earlier candidate on equal scores (the alternatives are left out)
_fuzzy_match(n, name) ==
    LET aliases == n._alias_to_canon
        loaded == {i \in DOMAIN aliases :
                     aliases[i][2] \in Range(n._sports) \cap n._name_to_sport}
        alias_keys == [i \in DOMAIN aliases |->
                         IF i \in loaded THEN <<aliases[i][1]>> ELSE <<>>]
        RECURSIVE Flat(_)
        Flat(ss) == IF ss = <<>> THEN <<>> ELSE Head(ss) \o Flat(Tail(ss))
        choices == Dedup(n._sports \o Flat(alias_keys), {})
        best == CHOOSE i \in DOMAIN choices :
                    \A j \in DOMAIN choices :
                        \/ combined_score(name, choices[i]) > combined_score(name, choices[j])
                        \/ /\ combined_score(name, choices[i]) = combined_score(name, choices[j])
                           /\ i <= j
        best_name == choices[best]
        confidence == combined_score(name, best_name)
        canonical == IF best_name \in DictKeys(aliases)
                     THEN DictGet(aliases, best_name) ELSE best_name
    IN  IF choices = <<>> THEN NormalizationResult(name, None, 0, "not_found")
        ELSE IF confidence < REVIEW_THRESHOLD
             THEN NormalizationResult(name, None, confidence, "not_found")
             ELSE NormalizationResult(name, Some(canonical), confidence, "fuzzy")

\* _do_normalize(name): exact, alias, folded name, folded alias, fuzzy
_do_normalize(n, name) ==
    LET norm == _normalize_text(name)
        folded == {i \in DOMAIN n._alias_to_canon :
                     _normalize_text(n._alias_to_canon[i][1]) = norm}
    IN  IF name \in n._name_to_sport
        THEN NormalizationResult(name, Some(name), 1000, "exact")
        ELSE IF name \in DictKeys(n._alias_to_canon)
        THEN NormalizationResult(name, Some(DictGet(n._alias_to_canon, name)), 980, "alias")
        ELSE IF norm \in DictKeys(n._norm_to_sport)
        THEN NormalizationResult(name, Some(DictGet(n._norm_to_sport, norm)), 950, "case_norm")
        ELSE IF folded # {}
        THEN NormalizationResult(name,
                 Some(n._alias_to_canon[CHOOSE i \in folded : \A j \in folded : i <= j][2]),
                 950, "alias")
        ELSE _fuzzy_match(n, name)

\* what is left alone by the normalizer's methods
notNormalizer == <<sysVars, ranks, ocr, racers>>

\* load_entries(entries)
LoadEntries(entries) ==
    /\ normalizer' = [_rebuild_indexes(normalizer, entries) EXCEPT !._cache = <<>>]
    /\ UNCHANGED notNormalizer

\* load_xls(xls_path): VrvsXlsParser.parse strips the name cells
LoadXls(cells) ==
    /\ normalizer' =
          [_rebuild_indexes(normalizer, [i \in DOMAIN cells |-> strip(cells[i], Whitespace)])
              EXCEPT !._cache = <<>>]
    /\ UNCHANGED notNormalizer

\* add_alias that leaves the cache as it is
AddAlias_keep_cache(alias, canonical) ==
    /\ normalizer' = [normalizer EXCEPT
                         !._alias_to_canon = DictSet(@, alias, canonical)]
    /\ UNCHANGED notNormalizer

\* add_alias(alias, canonical)
AddAlias(alias, canonical) ==
    /\ normalizer' = [normalizer EXCEPT
                         !._alias_to_canon = DictSet(@, alias, canonical),
                         !._cache = <<>>]
    /\ UNCHANGED notNormalizer

\* set_name_lifetime(sport_name, valid_to, new_name)
SetNameLifetime(sport_name, new_name) ==
    /\ normalizer' = [normalizer EXCEPT
                         !._alias_to_canon =
                             IF new_name # None /\ new_name[1] # <<>>
                             THEN DictSet(@, sport_name, new_name[1]) ELSE @,
                         !._cache = <<>>]
    /\ UNCHANGED notNormalizer

\* normalize(sport_name)
Normalize(sport_name) ==
    LET name == strip(sport_name, Whitespace)
        hit == name \in DOMAIN normalizer._cache
        result == IF hit THEN normalizer._cache[name]
                  ELSE _do_normalize(normalizer, name)
    IN  /\ normalizer' =
              IF name = <<>>
              THEN [normalizer EXCEPT
                       !.last = [input |-> Some(sport_name), hit |-> FALSE,
                                 result |-> Some(NormalizationResult(sport_name, None, 0,
                                                                     "not_found"))]]
              ELSE [normalizer EXCEPT
                       !._cache = [k \in DOMAIN @ \cup {name} |->
                                      IF k = name THEN result ELSE @[k]],
                       !.last = [input |-> Some(sport_name), hit |-> hit,
                                 result |-> Some(result)]]
        /\ UNCHANGED notNormalizer

----------------------------------------------------------------------------
(* ocr_pipeline.py: OcrPipeline.process_bytes                              *)

MaxPages == 2

MIN_CHARS_PER_PAGE == 80
MIN_READABLE_RATIO == 70

\* what the raster OCR reads on a page, and _readable_ratio(text) in percent:
\* 0 for a text of fewer than 10 characters
TesseractTexts == {"", "short", "garbled", "clean"}
_readable_ratio(text) ==
    CASE text = "clean" -> 70
      [] text = "garbled" -> 69
      [] OTHER -> 0

\* a page: the readable characters of its embedded text (after strip), the
\* text the raster OCR reads on it, and what the vision tier makes of it (a
\* page with a text layer, or one the raster OCR reads well, is one every
\* later tier would read too)
PdfPages ==
    { p \in [ clean_len : {MIN_CHARS_PER_PAGE - 1, MIN_CHARS_PER_PAGE},
              tesseract : TesseractTexts,
              vision : {"text", "", "error"} ] :
        /\ p.clean_len >= MIN_CHARS_PER_PAGE => p.tesseract = "clean"
        /\ p.tesseract = "clean" => p.vision = "text" }

\* the documents: their pages, none for a PDF without pages
Pdfs == UNION {[1..n -> PdfPages] : n \in 0..MaxPages}

NoOcr ==
    [ pc |-> "idle", pdf |-> <<>>, enable_vision |-> FALSE,
      page_results |-> <<>>, pages_needing_ocr |-> <<>>, tesseract_results |-> <<>>,
      rastered |-> {}, visioned |-> {}, method |-> "", error |-> "" ]

\* PageResult(page_num, text, method, confidence) without the confidence
PageResult(page_num, text, method) ==
    [page_num |-> page_num, text |-> text, method |-> method]

\* level 1, up to the await: the pages with enough embedded text get their
\* entry, the others are listed for the raster OCR
ProcessBytes(pdf, enable_vision) ==
    /\ ocr.pc = "idle"
    /\ LET hasText(i) == pdf[i].clean_len >= MIN_CHARS_PER_PAGE
           noText(i) == ~hasText(i)
           indices == [i \in 1..Len(pdf) |-> i]
           embedded == SelectSeq(indices, hasText)
           needing == SelectSeq(indices, noText)
           fresh == [NoOcr EXCEPT !.pdf = pdf, !.enable_vision = enable_vision]
       IN  ocr' = IF pdf = <<>>
                  THEN [fresh EXCEPT !.pc = "raised", !.error = "EmptyPdfError"]
                  ELSE [fresh EXCEPT
                           !.page_results =
                               [k \in 1..Len(embedded) |->
                                   PageResult(embedded[k], "embedded", "pypdf")],
                           !.pages_needing_ocr = needing,
                           !.pc = IF needing = <<>> THEN "assemble" ELSE "tesseract"]
    /\ UNCHANGED <<sysVars, ranks, normalizer, racers>>

\* _run_tesseract_batch in its thread: each listed page is rendered and read
RunTesseractBatch ==
    /\ ocr.pc = "tesseract"
    /\ ocr' = [ocr EXCEPT
                  !.tesseract_results =
                      [k \in 1..Len(ocr.pages_needing_ocr) |->
                          LET idx == ocr.pages_needing_ocr[k]
                          IN  <<idx, ocr.pdf[idx].tesseract,
                                _readable_ratio(ocr.pdf[idx].tesseract)>>],
                  !.rastered = Range(ocr.pages_needing_ocr),
                  !.pc = "assemble"]
    /\ UNCHANGED <<sysVars, ranks, normalizer, racers>>

\* level 2, the entries of the raster OCR: a readable page gets its entry, a
\* poor one is listed for the vision tier and keeps its text as a fallback
RECURSIVE TesseractEntries(_)
TesseractEntries(results) ==
    IF results = <<>> THEN <<>>
    ELSE LET r == Head(results)
         IN  (IF r[3] >= MIN_READABLE_RATIO \/ r[2] # ""
              THEN <<PageResult(r[1], r[2], "tesseract")>> ELSE <<>>)
             \o TesseractEntries(Tail(results))

\* level 3 that appends the vision entry and keeps the fallback entry
RECURSIVE VisionEntries_keep_fallback(_, _, _)
VisionEntries_keep_fallback(page_results, pages, pdf) ==
    IF pages = <<>> THEN page_results
    ELSE LET idx == Head(pages)
         IN  VisionEntries_keep_fallback(
                 IF pdf[idx].vision = "text"
                 THEN Append(page_results, PageResult(idx, "vision text", "vision"))
                 ELSE page_results,
                 Tail(pages), pdf)

\* level 3: a page the vision tier reads replaces its fallback entry; an
\* empty answer or an error leaves the entries as they are
RECURSIVE VisionEntries(_, _, _)
VisionEntries(page_results, pages, pdf) ==
    IF pages = <<>> THEN page_results
    ELSE LET idx == Head(pages)
             other(p) == p.page_num # idx
         IN  VisionEntries(
                 IF pdf[idx].vision = "text"
                 THEN Append(SelectSeq(page_results, other),
                             PageResult(idx, "vision text", "vision"))
                 ELSE page_results,
                 Tail(pages), pdf)

\* page_results.sort(key=page_num): a stable insertion sort
RECURSIVE SortPages(_)
SortPages(pages) ==
    IF pages = <<>> THEN <<>>
    ELSE LET rest == SortPages(SubSeq(pages, 1, Len(pages) - 1))
             last == pages[Len(pages)]
             before(p) == p.page_num <= last.page_num
             after(p) == p.page_num > last.page_num
         IN  SelectSeq(rest, before) \o <<last>> \o SelectSeq(rest, after)

\* max(methods_used, key=methods_used.get): the most used method, the one met
\* first among equals
dominant_method(pages) ==
    LET count(m) == Cardinality({i \in DOMAIN pages : pages[i].method = m})
        first(m) == CHOOSE i \in DOMAIN pages :
                        pages[i].method = m /\ \A j \in 1..(i - 1) : pages[j].method # m
        used == {pages[i].method : i \in DOMAIN pages}
    IN  CHOOSE m \in used :
            \A o \in used : count(m) > count(o) \/ (count(m) = count(o) /\ first(m) <= first(o))

\* after the await: the raster entries, the vision tier, and the result
Assemble ==
    /\ ocr.pc = "assemble"
    /\ LET poor(r) == r[3] < MIN_READABLE_RATIO
           needing == SelectSeq(ocr.tesseract_results, poor)
           pages_needing_vision == [k \in 1..Len(needing) |-> needing[k][1]]
           with_tesseract == ocr.page_results \o TesseractEntries(ocr.tesseract_results)
           use_vision == pages_needing_vision # <<>> /\ ocr.enable_vision
           entries == IF use_vision
                      THEN VisionEntries(with_tesseract, pages_needing_vision, ocr.pdf)
                      ELSE with_tesseract
       IN  ocr' = IF entries = <<>>
                  THEN [ocr EXCEPT !.pc = "raised", !.error = "AllPagesFailedError",
                                   !.visioned = IF use_vision
                                                THEN Range(pages_needing_vision) ELSE {}]
                  ELSE [ocr EXCEPT !.pc = "done",
                                   !.page_results = SortPages(entries),
                                   !.method = dominant_method(SortPages(entries)),
                                   !.visioned = IF use_vision
                                                THEN Range(pages_needing_vision) ELSE {}]
    /\ UNCHANGED <<sysVars, ranks, normalizer, racers>>

----------------------------------------------------------------------------
(* pipeline_orchestrator.py: concurrent process_file / process_url calls    *)
(* Each await of a store operation is a point where another call may run;   *)
(* every store operation is one transaction (engine.begin()).               *)
(***************************************************************************)

\* two calls at a time, each on one of two order numbers and two byte strings
Racers == {1, 2}
RaceCalls == {"file", "url"}
RaceBytes == {"b1", "b2"}

IdleRacer ==
    [pc |-> "idle", call |-> "file", num |-> "n1", bytes |-> NoBytes,
     order_id |-> 0, status |-> "", raised |-> ""]

raceFrame == <<run, hist, dynamic_domains, net, requests, browser, detector, extraction,
               ranks, normalizer, ocr>>

\* process_file(pdf_bytes, ...) is entered, or process_url(...) has validated
\* the URL and downloaded pdf_bytes: file_hash is computed
RaceEnter(k, call, num, bytes) ==
    /\ racers[k].pc = "idle"
    /\ racers' = [racers EXCEPT ![k] =
          [IdleRacer EXCEPT !.pc = "dedup", !.call = call, !.num = num, !.bytes = bytes]]
    /\ UNCHANGED <<orders, raceFrame>>

\* existing_id = await self.db.check_file_exists(file_hash); a hit returns
\* the holder's id with status "extracted"
RaceCheckFileExists(k) ==
    /\ racers[k].pc = "dedup"
    /\ \E existing \in check_file_exists(Sha256(racers[k].bytes)) :
         racers' = [racers EXCEPT ![k] =
            IF existing # 0
            THEN [@ EXCEPT !.order_id = existing, !.status = "extracted", !.pc = "ret"]
            ELSE [@ EXCEPT !.pc = "create"]]
    /\ UNCHANGED <<orders, raceFrame>>

\* result.order_id = await self.db.get_or_create_order(...)
RaceGetOrCreateOrder(k) ==
    /\ racers[k].pc = "create"
    /\ LET g == get_or_create_order("s1", racers[k].num, "good", "good")
       IN  /\ orders' = g.table
           /\ racers' = [racers EXCEPT ![k] =
                 [@ EXCEPT !.order_id = g.id,
                           !.pc = IF racers[k].call = "url" THEN "mark" ELSE "ocr"]]
    /\ UNCHANGED raceFrame

\* process_url: await self.db.update_order_status(order_id, "downloaded",
\* file_hash=file_hash), outside every try: the IntegrityError of the UNIQUE
\* column leaves process_url
RaceMarkDownloaded(k) ==
    /\ racers[k].pc = "mark"
    /\ IF UniqueViolation(racers[k].order_id, Sha256(racers[k].bytes))
       THEN /\ racers' = [racers EXCEPT ![k] = [@ EXCEPT !.raised = "db", !.pc = "ret"]]
            /\ UNCHANGED orders
       ELSE /\ orders' = update_order_status(racers[k].order_id, "downloaded",
                                             Sha256(racers[k].bytes), FALSE)
            /\ racers' = [racers EXCEPT ![k].pc = "ocr"]
    /\ UNCHANGED raceFrame

\* _step_ocr after the text is there: update_order_status(order_id,
\* "downloaded", file_hash=file_hash, ...) inside the try; its IntegrityError
\* is caught, the step is failed and _update_failed marks the order
RaceStepOcr(k) ==
    /\ racers[k].pc = "ocr"
    /\ IF UniqueViolation(racers[k].order_id, Sha256(racers[k].bytes))
       THEN /\ orders' = update_order_status(racers[k].order_id, "failed", NoHash, TRUE)
            /\ racers' = [racers EXCEPT ![k] = [@ EXCEPT !.status = "failed", !.pc = "ret"]]
       ELSE /\ orders' = update_order_status(racers[k].order_id, "downloaded",
                                             Sha256(racers[k].bytes), FALSE)
            /\ racers' = [racers EXCEPT ![k].pc = "rest"]
    /\ UNCHANGED raceFrame

\* the extraction and save steps: they end in "extracted" or, through
\* _update_failed, in "failed", and leave file_hash alone
RaceRest(k) ==
    /\ racers[k].pc = "rest"
    /\ \E ok \in BOOLEAN :
         /\ orders' = update_order_status(racers[k].order_id,
                          IF ok THEN "extracted" ELSE "failed", NoHash, ~ok)
         /\ racers' = [racers EXCEPT ![k] =
               [@ EXCEPT !.status = IF ok THEN "extracted" ELSE "failed", !.pc = "ret"]]
    /\ UNCHANGED raceFrame

\* the call returns or raises to its caller
RaceReturn(k) ==
    /\ racers[k].pc = "ret"
    /\ racers' = [racers EXCEPT ![k] = IdleRacer]
    /\ UNCHANGED <<orders, raceFrame>>

(***************************************************************************)
(* The specifications                                                      *)

Init ==
    /\ orders = <<>>
    /\ run = [r \in RunIds |-> IdleRun]
    /\ hist = NoHist
    /\ dynamic_domains = {}
    /\ net = NetIdle
    /\ requests = {}
    /\ browser = NoBrowser
    /\ detector = NoDetector
    /\ extraction = NoExtraction
    /\ ranks = <<>>
    /\ normalizer = NewNormalizer
    /\ ocr = NoOcr
    /\ racers = [k \in Racers |-> IdleRacer]

\* the rank normalizers on the rank texts
NextRank ==
    \/ \E t \in RankTexts : RuleNormalizeRank(t)
    \/ \E t \in RankTexts : NormalizeRank(t)

SpecRank == Init /\ [][NextRank]_vars

\* a SportNormalizer and its callers
NextSport ==
    \/ \E entries \in EntryLists : LoadEntries(entries)
    \/ \E cells \in XlsCells : LoadXls(cells)
    \/ \E alias \in {<<"Boks">>, <<"Bokss">>}, canonical \in {<<"Boks">>, <<"Muaytay">>} :
          AddAlias(alias, canonical)
    \/ \E new_name \in {None, Some(<<"Muaytay">>)} : SetNameLifetime(<<"Boks">>, new_name)
    \/ \E sport_name \in QueryNames : Normalize(sport_name)

SpecSport == Init /\ [][NextSport]_vars

\* an OcrPipeline on a document
NextOcr ==
    \/ \E pdf \in Pdfs, enable_vision \in BOOLEAN : ProcessBytes(pdf, enable_vision)
    \/ RunTesseractBatch
    \/ Assemble

SpecOcr == Init /\ [][NextOcr]_vars

\* process_file and process_url calls interleaved on one store
NextRace ==
    \/ \E k \in Racers, call \in RaceCalls, num \in BatchNumbers, bytes \in RaceBytes :
          RaceEnter(k, call, num, bytes)
    \/ \E k \in Racers : RaceCheckFileExists(k)
    \/ \E k \in Racers : RaceGetOrCreateOrder(k)
    \/ \E k \in Racers : RaceMarkDownloaded(k)
    \/ \E k \in Racers : RaceStepOcr(k)
    \/ \E k \in Racers : RaceRest(k)
    \/ \E k \in Racers : RaceReturn(k)

SpecRace == Init /\ [][NextRace]_vars

\* the direct calls, the admin actions and the change detector on one order key
Next ==
    \/ \E r \in RunIds : StartProcessFile(r)
    \/ \E r \in RunIds : StartProcessUrl(r)
    \/ \E r \in RunIds : StartProcessPending(r)
    \/ \E r \in RunIds : StartReprocess(r)
    \/ \E r \in RunIds : StepDownload(r)
    \/ \E r \in RunIds : CheckFileExists(r)
    \/ \E r \in RunIds : GetOrCreateOrder(r)
    \/ \E r \in RunIds : MarkDownloaded(r)
    \/ \E r \in RunIds : OcrProcess(r)
    \/ \E r \in RunIds : OcrUpdateStatus(r)
    \/ \E r \in RunIds : StepExtract(r)
    \/ \E r \in RunIds : SaveAssignments(r)
    \/ \E r \in RunIds : SaveUpdateStatus(r)
    \/ \E r \in RunIds : UpdateFailed(r)
    \/ \E r \in RunIds : Cancel(r)
    \/ \E r \in RunIds : Return(r)
    \/ \E r \in RunIds : NextItem(r)
    \/ \E r \in RunIds : BatchReturn(r)
    \/ \E r \in RunIds : ReprocessReset(r)
    \/ \E id \in OrderIds : approve_order(id)
    \/ \E id \in OrderIds : reject_order(id)
    \/ \E id \in OrderIds : reprocess_order(id)
    \/ \E src \in KnownSources, num \in Numbers, url \in ListedUrls, furl \in ListedUrls \cup {NoUrl} :
         (furl \in {url, NoUrl}) /\ CreateOrder(src, num, url, furl)

Spec == Init /\ [][Next]_vars

\* the batch: orders found by the change detector, then process_pending
NextBatch ==
    \/ \E src \in KnownSources, num \in BatchNumbers, url \in ListedUrls, furl \in ListedUrls \cup {NoUrl} :
         (furl \in {url, NoUrl}) /\ CreateOrder(src, num, url, furl)
    \/ \E r \in RunIds : StartProcessPending(r)
    \/ \E r \in RunIds : NextItem(r)
    \/ \E r \in RunIds : StepDownload(r)
    \/ \E r \in RunIds : CheckFileExists(r)
    \/ \E r \in RunIds : GetOrCreateOrder(r)
    \/ \E r \in RunIds : MarkDownloaded(r)
    \/ \E r \in RunIds : OcrProcess(r)
    \/ \E r \in RunIds : OcrUpdateStatus(r)
    \/ \E r \in RunIds : StepExtract(r)
    \/ \E r \in RunIds : SaveAssignments(r)
    \/ \E r \in RunIds : SaveUpdateStatus(r)
    \/ \E r \in RunIds : UpdateFailed(r)
    \/ \E r \in RunIds : Cancel(r)
    \/ \E r \in RunIds : Return(r)
    \/ \E r \in RunIds : BatchReturn(r)

SpecBatch == Init /\ [][NextBatch]_vars

\* a step of process_pending or of the process_url call it runs
BatchStep ==
    \E r \in RunIds :
        \/ StartProcessPending(r) \/ NextItem(r) \/ StepDownload(r) \/ CheckFileExists(r)
        \/ GetOrCreateOrder(r) \/ MarkDownloaded(r) \/ OcrProcess(r) \/ OcrUpdateStatus(r)
        \/ StepExtract(r) \/ SaveAssignments(r) \/ SaveUpdateStatus(r) \/ UpdateFailed(r)
        \/ Return(r) \/ BatchReturn(r)

\* the batch under a scheduler that calls process_pending again and again and
\* lets every awaited operation end
SpecBatchFair == Init /\ [][NextBatch]_vars /\ WF_vars(BatchStep)

\* the downloader's and the change detector's requests
SpecNet == Init /\ [][NextNet]_vars

\* the dynamic allowlist
SpecAllow == Init /\ [][NextAllow]_vars

SpecBrowser == Init /\ [][NextBrowser]_vars

SpecDetect == Init /\ [][NextDetect]_vars

SpecExtract == Init /\ [][NextExtract]_vars

----------------------------------------------------------------------------
(* Properties                                                              *)

\* a process_file / process_url call that has just returned a result
Returned(r) ==
    /\ run[r].pc = "ret"
    /\ run[r].call \in {"file", "url"}
    /\ run[r].raised = ""

LastStep(r) == run[r].steps[Len(run[r].steps)]

\* the call ended in the dedup short-circuit and saved nothing
ShortCircuited(r) ==
    /\ run[r].success
    /\ run[r].status = "extracted"
    /\ run[r].steps # <<>>
    /\ LastStep(r) = Step("dedup", "skipped")
    /\ \A i \in 1..(Len(run[r].steps) - 1) : run[r].steps[i] = Step("download", "success")
    /\ ~run[r].saved

\* C1 (as stated): whenever a call returns a result for the bytes the previous
\* call returned a result for, it returns the previous call's order_id and
\* ends in the dedup short-circuit without saving.
C1_AnyFirstRun ==
    \A r \in RunIds :
        (Returned(r) /\ run[r].bytes # NoBytes /\ hist.bytes = run[r].bytes)
            => (run[r].order_id = hist.order_id /\ ShortCircuited(r))

\* C1 (amended): when the previous call left its order holding the hash of
\* the bytes, a call that returns a result for the same bytes returns that
\* order's id and ends in the dedup short-circuit (success, status extracted,
\* a last step dedup/skipped after at most the download step) without calling
\* save_assignments.
C1_Idempotent ==
    \A r \in RunIds :
        (Returned(r) /\ run[r].bytes # NoBytes /\ hist.bytes = run[r].bytes /\ hist.holder)
            => (run[r].order_id = hist.order_id /\ ShortCircuited(r))

C1_Witness ==
    \E r \in RunIds :
        /\ Returned(r) /\ run[r].call = "url"
        /\ hist.holder /\ hist.bytes = run[r].bytes
        /\ run[r].order_id = hist.order_id /\ run[r].order_id # 0
        /\ run[r].steps = <<Step("download", "success"), Step("dedup", "skipped")>>
        /\ orders[run[r].order_id].asg # {}

\* C2: after save_assignments was called for an order, the order's stored
\* assignment set is the full prior set or the full new set.
C2_AllOrNothing ==
    \A r \in RunIds :
        (run[r].saved /\ run[r].order_id \in OrderIds)
            => orders[run[r].order_id].asg \in {run[r].prior, Range(run[r].rows)}

\* C3: every change of an order's stored status follows an edge of the
\* lifecycle, or is made by an explicit reprocess (reprocess_order, reprocess).
C3_Lifecycle ==
    [][\A i \in OrderIds :
          (i <= Len(orders') /\ orders'[i].status # orders[i].status)
              => \/ <<orders[i].status, orders'[i].status>> \in
                      {<<"new", "downloaded">>, <<"downloaded", "extracted">>,
                       <<"extracted", "approved">>, <<"extracted", "rejected">>,
                       <<"new", "failed">>, <<"downloaded", "failed">>,
                       <<"extracted", "failed">>}
                 \/ reprocess_order(i)
                 \/ \E r \in RunIds : run[r].target = i /\ ReprocessReset(r)]_vars

\* a process_url call returned success after running the whole pipeline for
\* a stored order
FullSuccess(r) ==
    /\ Returned(r) /\ run[r].call = "url"
    /\ run[r].success /\ run[r].saved /\ run[r].order_id # 0

\* C4 (as stated): a successful process_url run stores new (when it creates
\* the order), downloaded and extracted, each once and in that order.
C4_EachOnce ==
    \A r \in RunIds :
        (FullSuccess(r) /\ run[r].mode # "reprocess")
            => run[r].writes \in {<<"new", "downloaded", "extracted">>,
                                  <<"downloaded", "extracted">>}

\* C4 (amended): a successful process_url run stores new (when it creates the
\* order), then downloaded twice (process_url, then _step_ocr), then extracted,
\* and nothing else; reprocess stores downloaded, not new, before that.
C4_Monotone ==
    \A r \in RunIds :
        FullSuccess(r)
            => IF run[r].mode = "reprocess"
               THEN run[r].writes = <<"downloaded", "downloaded", "downloaded", "extracted">>
               ELSE run[r].writes \in {<<"new", "downloaded", "downloaded", "extracted">>,
                                       <<"downloaded", "downloaded", "extracted">>}

C4_Witness ==
    \E r \in RunIds :
        /\ FullSuccess(r) /\ run[r].mode = "url"
        /\ run[r].writes = <<"new", "downloaded", "downloaded", "extracted">>
        /\ orders[run[r].order_id].status = "extracted"

\* C5: when a process_url call (direct or from process_pending) returns
\* success = false for an order that exists in the store, the order's stored
\* status is failed and its error_message is set.
C5_FailedRecorded ==
    \A r \in RunIds :
        (Returned(r) /\ run[r].call = "url" /\ ~run[r].success
           /\ FindOrder(run[r].src, run[r].num) # 0)
            => /\ orders[FindOrder(run[r].src, run[r].num)].status = "failed"
               /\ orders[FindOrder(run[r].src, run[r].num)].error_message

\* C6: process_file, process_url and process_pending never raise an exception
\* to their caller, whatever collaborator fails; a result that is not a
\* success has an error and status failed.
C6_NeverRaise ==
    \A r \in RunIds :
        /\ (run[r].pc = "ret" /\ run[r].call \in {"file", "url"})
              => /\ run[r].raised \in {"", "cancelled"}
                 /\ (run[r].raised = "" /\ ~run[r].success)
                        => (run[r].error # "" /\ run[r].status = "failed")
        /\ run[r].pc = "batch_ret" => run[r].raised \in {"", "cancelled"}

\* C7: a reprocess whose download succeeded (a PDF within the size limit) and
\* that returned a result ran OCR again, rewrote the assignments when it
\* succeeded, and stored extracted or failed last.
C7_Reruns ==
    \A r \in RunIds :
        (Returned(r) /\ run[r].mode = "reprocess"
           /\ run[r].bytes # NoBytes /\ validate_pdf_size(run[r].bytes))
            => /\ \E i \in 1..Len(run[r].steps) : run[r].steps[i].step = "ocr"
               /\ run[r].success => run[r].saved
               /\ run[r].writes[Len(run[r].writes)] \in {"extracted", "failed"}

\* C8: when process_pending ends without being cancelled and after its fetch
\* succeeded, it returns and does not raise, with exactly one result per
\* fetched order, in fetch order, oldest first; an order whose processing
\* raised has a failed result, and the orders after it have theirs. While the
\* batch runs, every fetched order is either answered or still queued.
C8_BatchResilience ==
    \A r \in RunIds :
        /\ (run[r].pc = "batch_ret" /\ run[r].raised \notin {"cancelled", "fetch"})
              => /\ run[r].raised = ""
                 /\ Len(run[r].results) = Len(run[r].fetched)
                 /\ \A i \in 1..Len(run[r].fetched) :
                       /\ run[r].results[i].num = orders[run[r].fetched[i]].num
                       /\ run[r].results[i].caught
                             => (~run[r].results[i].success
                                 /\ run[r].results[i].status = "failed")
                 /\ \A i, j \in 1..Len(run[r].fetched) :
                       i < j => run[r].fetched[i] < run[r].fetched[j]
        /\ run[r].pc = "next_item"
              => Len(run[r].results) + Len(run[r].queue) = Len(run[r].fetched)

C8_Witness ==
    \E r \in RunIds :
        /\ run[r].pc = "batch_ret" /\ run[r].raised = ""
        /\ Len(run[r].fetched) = 2 /\ Len(run[r].results) = 2
        /\ run[r].results[1].caught
        /\ run[r].results[2].success /\ run[r].results[2].order_id = run[r].fetched[2]

\* C9: every request of the downloader and of the change detector goes to a
\* host that is in get_allowed_domains when the request is made.
C9_AllowlistTotal ==
    \A q \in requests : q.allowed

\* the URL shapes validate_url rejects without resolving the host
RejectedEarly(u) ==
    \/ UrlScheme(u) \notin {"http", "https"}
    \/ UrlHasUserinfo(u)
    \/ UrlHostname(u) \notin get_allowed_domains

\* C10: for a URL with another scheme than http/https, with userinfo, or with
\* a host outside the allowlist, validate_url is false without a DNS lookup
\* whatever the resolver would answer, and process_url returns a failed
\* result with no DNS lookup, no download and no step.
C10_EarlyReject ==
    /\ \A u \in Urls, dns \in DnsAnswers :
          RejectedEarly(u) => validate_url(u, dns) = [ok |-> FALSE, dns |-> 0]
    /\ \A r \in RunIds :
          (run[r].pc = "ret" /\ run[r].call = "url" /\ RejectedEarly(run[r].url))
              => /\ run[r].raised = "" /\ ~run[r].success
                 /\ run[r].status = "failed" /\ run[r].error = "ssrf"
                 /\ run[r].net = NoDns
                 /\ run[r].steps = <<>>

C10_Witness ==
    \E r \in RunIds :
        /\ run[r].pc = "ret" /\ run[r].call = "url"
        /\ run[r].url = "userinfo" /\ UrlHostname(run[r].url) \in get_allowed_domains
        /\ ~run[r].success /\ run[r].net = NoDns

\* C11: no download request connects to a private, loopback, link-local,
\* reserved or multicast address.
C11_NoPrivateEgress ==
    \A q \in requests : q.by = "downloader" => q.addr = "public"

\* the domain with its surrounding spaces and dots removed, in lower case
TrimmedDomain(domain) == Join(strip(lower(domain), Whitespace \cup {"."}))

\* C12 (as stated): after register_domain(d), for d not empty once trimmed,
\* the allowlist holds d in lower case without its surrounding whitespace and
\* dots; the allowlist never loses a host.
C12_TrimmedIn ==
    [][/\ \A d \in RawDomains :
             (register_domain(d) /\ TrimmedDomain(d) # "")
                 => TrimmedDomain(d) \in get_allowed_domains'
       /\ get_allowed_domains \subseteq get_allowed_domains']_vars

\* C12 (amended): after register_domain(d), when d.strip().lower().strip(".")
\* is not empty the allowlist holds exactly that string from then on
\* (whitespace is trimmed before the dots, so whitespace between the name and
\* a surrounding dot stays); the allowlist never loses a host and always
\* holds the static and the registry's hosts.
C12_DynamicAllowlist ==
    [][/\ \A d \in RawDomains :
             (register_domain(d) /\ Join(strip(lower(strip(d, {" "})), {"."})) # "")
                 => Join(strip(lower(strip(d, {" "})), {"."})) \in get_allowed_domains'
       /\ get_allowed_domains \subseteq get_allowed_domains'
       /\ (_ALLOWED_DOMAINS \cup ALLOWED_DOMAINS) \subseteq get_allowed_domains']_vars

C12_Witness ==
    /\ "new.example" \in get_allowed_domains
    /\ "new.example " \in get_allowed_domains
    /\ "New.Example" \notin get_allowed_domains

\* C13: at every moment at most two browser sessions are open in the process,
\* the change detector's and the downloader's together.
C13_TwoSessions == OpenSessions <= 2

\* C14: every check_source of a red-risk source returns SKIPPED, fetches no
\* listing page and creates no order, with or without a store.
C14_RedNeverPolled ==
    \A i \in 1..Len(detector.checks) :
        detector.checks[i].source_code \in RedSources
            => /\ detector.checks[i].status = "SKIPPED"
               /\ ~detector.checks[i].fetched
               /\ detector.checks[i].orders_created = 0

\* C15: of two successive checks of a polled source on identical listing HTML,
\* the first is UNCHANGED or NEW_DOCS and the second is UNCHANGED with no new
\* document and no order created; no two orders of a source share a document URL.
C15_SecondUnchanged ==
    /\ (/\ Len(detector.checks) = 2
        /\ detector.checks[1].source_code = detector.checks[2].source_code
        /\ detector.checks[1].source_code \in PatternCodes \ RedSources
        /\ detector.checks[1].html = detector.checks[2].html
        /\ detector.checks[1].html \in Htmls)
           => /\ detector.checks[1].status \in {"UNCHANGED", "NEW_DOCS"}
              /\ detector.checks[2].status = "UNCHANGED"
              /\ detector.checks[2].links_new = 0
              /\ detector.checks[2].orders_created = 0
    /\ \A i, j \in OrderIds :
          (orders[i].src = orders[j].src /\ orders[i].source_url = orders[j].source_url)
              => i = j

\* C16: a run in which the rule-based extractor returns, or would return, at
\* least one record never fails at the extraction step.
C16_RuleBasedSuffices ==
    [][\A r \in RunIds, llm \in ExtractorOutcomes, rule \in ExtractorOutcomes :
          (StepExtractWith(r, llm, rule) /\ rule.kind = "rows" /\ rule.rows # <<>>)
              => run'[r].pc # "failed"]_vars

\* C17: an order whose run failed inside process_pending is run again only by
\* an explicit reprocess: the next process_pending does not fetch it.
C17_NoAutoRetry ==
    [][\A r \in RunIds :
          (Return(r) /\ run[r].mode = "pending" /\ run[r].raised = "" /\ ~run[r].success)
              => FindOrder(run[r].src, run[r].num) \notin Range(PendingFrom(1))']_vars

\* C18: one download follows at most one PDF link found in an HTML page.
C18_OneInPageRetry == net.depth <= 1

\* C19: a process_file / process_url run that was cancelled leaves its order
\* in status failed with an error_message.
C19_CancelledFailed ==
    \A r \in RunIds :
        (/\ run[r].pc = "ret"
         /\ run[r].raised = "cancelled"
         /\ run[r].call \in {"file", "url"}
         /\ run[r].order_id \in OrderIds)
            => /\ orders[run[r].order_id].status = "failed"
               /\ orders[run[r].order_id].error_message

\* C20: every record handed to save_assignments has a non-empty fio and a
\* non-empty rank_category, whichever extractor produced it.
C20_AssignmentInvariant ==
    extraction.pc = "saved"
        => \A i \in 1..Len(extraction.rows) :
              extraction.rows[i].fio # "" /\ extraction.rows[i].rank_category # ""

\* the names a call could have given: those of the patterns (of the branches)
\* that match its text
Candidates(c) ==
    IF c.fn = "rule_extractor"
    THEN {RANK_PATTERNS[i] : i \in RankMatches(c.text)}
    ELSE IF RankLower(c.text) \in DOMAIN RankAliases
         THEN {RankAliases[RankLower(c.text)]}
         ELSE LET b == RankBranches(RankLower(c.text))
              IN  {b[i][2] : i \in {j \in DOMAIN b : b[j][1]}}

\* <<specific, general>>: a youth rank and the adult rank of the same number,
\* a higher Roman numeral and the numeral I it contains, a title and the
\* title whose words it contains
MoreSpecific ==
    { <<"tretiy yunosheskiy sportivnyy razryad", "tretiy sportivnyy razryad">>,
      <<"vtoroy yunosheskiy sportivnyy razryad", "vtoroy sportivnyy razryad">>,
      <<"pervyy yunosheskiy sportivnyy razryad", "pervyy sportivnyy razryad">>,
      <<"tretiy yunosheskiy sportivnyy razryad", "vtoroy yunosheskiy sportivnyy razryad">>,
      <<"tretiy yunosheskiy sportivnyy razryad", "pervyy yunosheskiy sportivnyy razryad">>,
      <<"vtoroy yunosheskiy sportivnyy razryad", "pervyy yunosheskiy sportivnyy razryad">>,
      <<"tretiy sportivnyy razryad", "pervyy sportivnyy razryad">>,
      <<"vtoroy sportivnyy razryad", "pervyy sportivnyy razryad">>,
      <<"zasluzhennyy master sporta rossii", "master sporta rossii">>,
      <<"master sporta rossii mezhdunarodnogo klassa", "master sporta rossii">>,
      <<"kandidat v mastera sporta", "master sporta rossii">>,
      <<"pochetnyy master sporta rossii", "master sporta rossii">> }

\* C21: normalize_rank never gives the name of a less specific pattern when a
\* more specific one matches the text: a youth rank wins over the adult rank,
\* III and II win over I, and a title whose wording contains another title's
\* words gives its own canonical name.
C21_MostSpecificWins ==
    \A i \in DOMAIN ranks :
        \A pair \in MoreSpecific :
            (pair[1] \in Candidates(ranks[i]) /\ pair[2] \in Candidates(ranks[i]))
                => ranks[i].result # pair[2]

\* the part of C21 on ranks: youth before adult, III and II before I
C21_RanksInOrder ==
    \A i \in DOMAIN ranks :
        \A pair \in MoreSpecific :
            (/\ pair[1] \in Candidates(ranks[i])
             /\ pair[2] \in Candidates(ranks[i])
             /\ pair[2] # "master sporta rossii")
                => ranks[i].result # pair[2]


\* the result of the last normalize call is an exact match of its input
ExactRoundTrip(sport_name) ==
    LET result == normalizer'.last.result[1]
    IN  /\ result.canonical_name = Some(sport_name)
        /\ result.confidence = 1000
        /\ result.method = "exact"

\* C22: for every sport s of the loaded registry, normalize(s.name) gives
\* canonical_name = s.name with confidence 1.0 and method exact, whatever
\* aliases are registered.
C22_RoundTrip ==
    [][\A sport_name \in QueryNames :
          (Normalize(sport_name) /\ sport_name \in Range(normalizer._sports))
              => ExactRoundTrip(sport_name)]_vars

\* the part of C22 that holds: the round trip of the sports whose name is not
\* empty and carries no leading or trailing whitespace (normalize strips its
\* input, the index keeps the names as they were loaded)
C22_StrippedRoundTrip ==
    [][\A sport_name \in QueryNames :
          (/\ Normalize(sport_name)
           /\ sport_name \in Range(normalizer._sports)
           /\ sport_name # <<>>
           /\ strip(sport_name, Whitespace) = sport_name)
              => ExactRoundTrip(sport_name)]_vars

\* a registry name that also is an alias of another sport was normalized
C22_AliasedSport ==
    /\ normalizer.last.input # None
    /\ normalizer.last.input[1] \in Range(normalizer._sports)
    /\ normalizer.last.input[1] \in DictKeys(normalizer._alias_to_canon)
    /\ DictGet(normalizer._alias_to_canon, normalizer.last.input[1]) # normalizer.last.input[1]
    /\ normalizer.last.result[1].method = "exact"


\* C30: the memo cache of a SportNormalizer is coherent: after any sequence of
\* load_xls / load_entries, add_alias, set_name_lifetime and normalize calls,
\* every result the cache holds (the one normalize serves) is the result of an
\* uncached lookup against the current indexes and alias table, and so is the
\* result the last normalize call returned for as long as neither changes.
C30_CacheCoherent ==
    /\ \A name \in DOMAIN normalizer._cache :
          normalizer._cache[name] = _do_normalize(normalizer, name)
    /\ (normalizer.last.hit /\ strip(normalizer.last.input[1], Whitespace)
                                  \in DOMAIN normalizer._cache)
          => normalizer.last.result[1] =
                _do_normalize(normalizer, strip(normalizer.last.input[1], Whitespace))

\* normalize served a name from the cache after the alias table and the
\* registry had changed, and the name's result depends on both
C30_Witness ==
    /\ normalizer.last.hit
    /\ normalizer.last.result[1].method = "alias"
    /\ normalizer.last.result[1].canonical_name = Some(<<"Muaytay">>)
    /\ normalizer.last.input = Some(<<"Bokss">>)
    /\ normalizer._sports # <<>>
    /\ Len(normalizer._alias_to_canon) > Len(KNOWN_ALIASES)


\* C23: the raster OCR runs only on the pages whose embedded text has fewer
\* than min_chars_per_page readable characters, the vision tier only on the
\* pages whose raster text has a readable ratio below min_readable_ratio; a
\* document whose pages all have enough embedded text is reported as pypdf
\* with no raster or vision work; the result holds at most one entry per page.
C23_MinimumTier ==
    /\ \A p \in ocr.rastered : ocr.pdf[p].clean_len < MIN_CHARS_PER_PAGE
    /\ \A p \in ocr.visioned :
          p \in ocr.rastered /\ _readable_ratio(ocr.pdf[p].tesseract) < MIN_READABLE_RATIO
    /\ \A i \in DOMAIN ocr.page_results :
          /\ ocr.page_results[i].method = "tesseract"
                => ocr.page_results[i].page_num \in ocr.rastered
          /\ ocr.page_results[i].method = "vision"
                => ocr.page_results[i].page_num \in ocr.visioned
    /\ (ocr.pc = "done" /\ \A p \in DOMAIN ocr.pdf : ocr.pdf[p].clean_len >= MIN_CHARS_PER_PAGE)
          => ocr.method = "pypdf" /\ ocr.rastered = {} /\ ocr.visioned = {}
    /\ \A i, j \in DOMAIN ocr.page_results :
          ocr.page_results[i].page_num = ocr.page_results[j].page_num => i = j

\* a two-page document is done: one page came from its embedded text, the
\* other went through the raster OCR, kept a fallback text, and was read by
\* the vision tier
C23_Witness ==
    /\ ocr.pc = "done"
    /\ Len(ocr.pdf) = 2
    /\ ocr.pdf[1].clean_len >= MIN_CHARS_PER_PAGE
    /\ ocr.pdf[2].tesseract = "garbled"
    /\ ocr.rastered = {2}
    /\ ocr.visioned = {2}
    /\ Len(ocr.page_results) = 2
    /\ ocr.page_results[2].method = "vision"


\* C24: RuleExtractor.extract never returns two records with the same
\* (fio, birth_date), fio being the name as returned, its glued words split.
C24_NoDuplicateRecords ==
    (extraction.pc = "extracted" /\ extraction.method \in {"tabular", "section", "freetext"})
        => \A i, j \in DOMAIN extraction.rows :
              extraction.rows[i].fio = extraction.rows[j].fio => i = j


\* the steps after the download step, when the list begins with it
AfterDownload(steps) ==
    IF steps # <<>> /\ steps[1].step = "download" THEN Tail(steps) ELSE steps

\* C25: the step list of a process_file / process_url run is the single step
\* dedup (after the download step of process_url) or a prefix of (download,)
\* ocr, extract, normalize, save in that order, each step at most once; a step
\* is started only if every earlier step ended success or skipped; and the
\* run reports success only if save succeeded or dedup short-circuited.
C25_StrictStepOrder ==
    \A r \in RunIds :
        run[r].call \in {"file", "url"} =>
            LET steps == run[r].steps
                rest == AfterDownload(steps)
                pipeline == <<"ocr", "extract", "normalize", "save">>
            IN  /\ \/ (Len(rest) = 1 /\ rest[1].step = "dedup")
                   \/ /\ Len(rest) <= Len(pipeline)
                      /\ \A i \in DOMAIN rest : rest[i].step = pipeline[i]
                /\ \A i \in 1..(Len(steps) - 1) : steps[i].status \in {"success", "skipped"}
                /\ run[r].success =>
                      (steps # <<>> /\ LastStep(r) \in {Step("save", "success"),
                                                        Step("dedup", "skipped")})

\* the part of C25 that holds: the names of the steps, repeats aside, follow
\* the order download, ocr, extract, normalize, save, and a run reports
\* success only after save succeeded or dedup short-circuited
C25_OrderedNames ==
    \A r \in RunIds :
        run[r].call \in {"file", "url"} =>
            LET steps == run[r].steps
                rank(name) == CASE name = "download" -> 0 [] name = "dedup" -> 1
                                [] name = "ocr" -> 1 [] name = "extract" -> 2
                                [] name = "normalize" -> 3 [] OTHER -> 4
            IN  /\ \A i, j \in DOMAIN steps :
                      i < j => rank(steps[i].step) <= rank(steps[j].step)
                /\ run[r].success =>
                      (steps # <<>> /\ LastStep(r) \in {Step("save", "success"),
                                                        Step("dedup", "skipped")})


\* C26: in step S4 the rewrite of the order's assignments and the status
\* update to extracted are one transaction: whenever the committed assignments
\* of an order change, the order's status in the same store state is extracted.
C26_SaveWithStatus ==
    [][\A id \in OrderIds :
          orders'[id].asg # orders[id].asg => orders'[id].status = "extracted"]_vars


\* C27: when process_file or process_url returns success = true and status
\* extracted for an order, with a connected store, the order's stored status
\* at that moment is extracted (or approved / rejected), also when the result
\* comes from the dedup short-circuit.
C27_ResultAgreesWithStore ==
    [][\A r \in RunIds :
          (/\ run[r].pc # "ret" /\ run'[r].pc = "ret"
           /\ run'[r].call \in {"file", "url"} /\ run'[r].raised = ""
           /\ run'[r].success /\ run'[r].status = "extracted" /\ run'[r].order_id # 0)
              => orders'[run'[r].order_id].status \in {"extracted", "approved", "rejected"}]_vars

\* the part of C27 that holds: a run that returns success after its own save
\* step leaves the order extracted
C27_SavedAgrees ==
    [][\A r \in RunIds :
          (/\ run[r].pc # "ret" /\ run'[r].pc = "ret"
           /\ run'[r].call \in {"file", "url"} /\ run'[r].raised = ""
           /\ run'[r].success /\ run'[r].saved /\ run'[r].order_id # 0)
              => orders'[run'[r].order_id].status = "extracted"]_vars


\* C28: under repeated process_pending(limit) calls, and with a store that
\* answers and no call cancelled, every order whose stored status is new or
\* downloaded eventually leaves the pending set, whatever happens to its
\* download and however many orders are pending.
C28_QueueProgress ==
    [](\A r \in RunIds : run[r].raised = "")
        => \A i \in 1..Cardinality(BatchNumbers) :
              (i \in OrderIds /\ orders[i].status \in PendingStatuses)
                  ~> (i \in OrderIds /\ orders[i].status \notin PendingStatuses)

\* C29: under any interleaving of concurrent process_file / process_url
\* calls, no two orders hold the same non-null file_hash and no call raises
\* because of another call on the same bytes.
C29_UniqueHashNoRaise ==
    /\ \A i, j \in OrderIds :
          (i # j /\ orders[i].file_hash # NoHash)
              => orders[i].file_hash # orders[j].file_hash
    /\ \A k \in Racers : racers[k].raised = ""

\* the store half of C29 on its own: the hashes held are pairwise distinct
C29_HashesDistinct ==
    \A i, j \in OrderIds :
        (i # j /\ orders[i].file_hash # NoHash)
            => orders[i].file_hash # orders[j].file_hash

\* no call passes the hash check and then ends failed on the hash column
C29_NoFailedOnHash ==
    [][\A k \in Racers :
          (racers[k].pc = "ocr" /\ racers'[k].pc = "ret") => racers'[k].status # "failed"]_vars

=============================================================================
